---- MODULE Spec2Model ----
(***************************************************************************)
(* The deCONZ request/response multiplexer: DeconzTask (the select loop),  *)
(* DeconzQueue (queues, in-flight map, pacing), DeconzClientHandle (the    *)
(* callers' side) and the device on the other end of the serial line.      *)
(***************************************************************************)
EXTENDS Integers, Sequences, FiniteSets, TLC

(***************************************************************************)
(* Bounds of the model.                                                    *)
(***************************************************************************)
\* Number of calls (send_command / subscribe) made on the handles.
MaxCalls == 2
\* Number of items (frames, read errors) the device puts on the wire.
MaxFrames == 3
\* Number of items on the wire that the task has not read yet.
MaxWire == 1
\* The same two bounds for the runs that start with a full in-flight window.
MaxWarmCalls == 2
MaxWarmFrames == 2
\* Number of callers that give up waiting and drop their receiver.
MaxDroppedReceivers == 1
MaxPublished == 200

(***************************************************************************)
(* Program constants.                                                      *)
(***************************************************************************)
MAX_IN_FLIGHT_COMMANDS == 16
\* next_sequence_id is a u8: wrapping_add wraps at 2^8.
U8Mod == 256

\* CommandId discriminants.
ApsDataConfirm == 4
DeviceState == 7
Version == 13
DeviceStateChanged == 14
ApsDataRequest == 18
ApsDataIndication == 23
MacPollIndication == 28
MacBeaconIndication == 31

CommandIds ==
    { ApsDataConfirm, DeviceState, Version, DeviceStateChanged, ApsDataRequest,
      ApsDataIndication, MacPollIndication, MacBeaconIndication }

\* The commands the callers of this model submit through send_command.
CallerCommands == { Version, DeviceState, ApsDataRequest }

\* Device-state flag bytes the device reports in this model:
\* 0x08 Offline + indication pending;
\* 0x0E Connected + confirm pending + indication pending (no free slots);
\* 0x20 Offline + free slots; 0x22 Connected + free slots.
DeviceStateBytes == { 8, 14, 32, 34 }

(***************************************************************************)
(* DeviceState, decoded from its flag byte.                                *)
(***************************************************************************)
\* flags & mask == mask, for a one-bit mask.
FlagSet(flags, flag) == (flags \div flag) % 2 = 1

NetworkStateFromU8(value) ==
    CASE value = 0 -> "NetOffline"
      [] value = 1 -> "NetJoining"
      [] value = 2 -> "NetConnected"
      [] value = 3 -> "NetLeaving"

DeviceStateFromU8(flags) ==
    [ network_state |-> NetworkStateFromU8(flags % 4),
      apsde_data_confirm |-> FlagSet(flags, 4),
      apsde_data_indication |-> FlagSet(flags, 8),
      configuration_changed |-> FlagSet(flags, 16),
      apsde_data_request_free_slots |-> FlagSet(flags, 32) ]

IsConnected(network_state) == network_state = "NetConnected"

\* Option<DeviceState>: <<>> is None, <<ds>> is Some(ds).
None == <<>>
Some(x) == <<x>>

(***************************************************************************)
(* State.                                                                  *)
(***************************************************************************)
VARIABLES
    pc,                     \* DeconzTask::run: "connect", "try_io", "select",
                            \* "exiting" (returned or panicked), "dead" (dropped)
    disabled,               \* branches of the current select! that are disabled
    next_sequence_id,       \* DeconzQueue
    device_state,
    aps_data_request_status,
    enqueued_commands,
    enqueued_aps_data_request_commands,
    in_flight_commands,
    inbox,                  \* the mpsc channel task_tx -> task_rx
    handles_alive,          \* some DeconzClientHandle (sender) still exists
    wire,                   \* what the serial stream will yield, in order
    frames_left,            \* items the device may still produce
    calls_left,             \* calls the callers may still make
    calls,                  \* the calls made on the handles, with their one-shots
    tx,                     \* frames written by the last pacing step
    aps_sent_since_update,  \* APS submissions written since the last update_device_state
    last_observation,       \* the last device-state observation dispatched
    write_error,            \* a write_frame call has returned Err
    last_dispatch,          \* how the frame just dispatched was handled
    num_written,            \* frames written to the stream so far
    broadcast_channels,     \* the aps_data_indication channel and its receivers
    codec                   \* a frame on its way through encode and read_frame

vars ==
    << pc, disabled, next_sequence_id, device_state, aps_data_request_status,
       enqueued_commands, enqueued_aps_data_request_commands, in_flight_commands,
       inbox, handles_alive, wire, frames_left, calls_left, calls, tx, aps_sent_since_update,
       last_observation, write_error, last_dispatch, num_written, broadcast_channels,
       codec >>


(***************************************************************************)
(* Maps (HashMap<u8, InFlightCommand>) as functions with a finite domain.  *)
(***************************************************************************)
EmptyMap == [x \in {} |-> x]
MapInsert(m, k, v) == [x \in (DOMAIN m) \cup {k} |-> IF x = k THEN v ELSE m[x]]
MapRemove(m, k) == [x \in (DOMAIN m) \ {k} |-> m[x]]

\* InFlightCommand::Internal and InFlightCommand::External { response_parser }.
\* The response_parser closure of a call owns that call's one-shot sender, so
\* it is identified by the call (its index in calls).
Internal == [kind |-> "Internal", call |-> 0]
External(call) == [kind |-> "External", call |-> call]

\* EnqueuedCommand { command_request, in_flight_command }
EnqueuedCommand(command_id, in_flight_command) ==
    [command_id |-> command_id, in_flight_command |-> in_flight_command]

new_internal(command_id) == EnqueuedCommand(command_id, Internal)

(***************************************************************************)
(* DeconzQueue.  The operators below take and return the queue as a record *)
(* q: the struct's fields, and the effects of the step in progress:        *)
(*   tx        frames written to the stream by this step, in order;        *)
(*   writes_ok how many write_frame calls of this step return Ok;          *)
(*   panicked  the step hit a panic (an unwrap on Err, a short read);      *)
(*   dropped   calls whose response_parser was dropped without being run;  *)
(*   invoked   calls whose response_parser was run;                        *)
(*   delivered calls whose one-shot was sent the parsed response;          *)
(*   observed  the device states the dispatch of this step observed;       *)
(*   write_error  a write_frame call of this step returned Err;            *)
(*   dispatch  how handle_deconz_frame handled the frame of this step.     *)
(***************************************************************************)
has_in_flight_command_for_command_id(q, command_id) ==
    DOMAIN q.in_flight_commands[command_id] # {}

InFlightKeys(in_flight) ==
    UNION { { <<c, s>> : s \in DOMAIN in_flight[c] } : c \in DOMAIN in_flight }

num_in_flight_commands(q) == Cardinality(InFlightKeys(q.in_flight_commands))

\* in_flight_commands_full that lets one more command through.
in_flight_commands_full_above(q) == num_in_flight_commands(q) > MAX_IN_FLIGHT_COMMANDS

in_flight_commands_full(q) == num_in_flight_commands(q) >= MAX_IN_FLIGHT_COMMANDS

\* has_slots_available that also accepts PendingNextDeviceUpdate.
has_slots_available_unless_full(status) == status # "SlotsFull"

has_slots_available(status) == status = "SlotsAvailable"

\* A key that ignores the command id: every entry in one map, by sequence id.
InFlightKey_sequence_only(command_id, sequence_id) == <<Version, sequence_id>>

\* The (command_id, sequence_id) under which an entry is stored and looked up.
InFlightKey(command_id, sequence_id) == <<command_id, sequence_id>>

\* enqueue_command with push_front instead of push_back.
enqueue_command_push_front(q, command_id, in_flight_command) ==
    IF command_id = ApsDataRequest
    THEN [q EXCEPT !.enqueued_aps_data_request_commands =
                        <<EnqueuedCommand(command_id, in_flight_command)>> \o @]
    ELSE [q EXCEPT !.enqueued_commands =
                        <<EnqueuedCommand(command_id, in_flight_command)>> \o @]

enqueue_command(q, command_id, in_flight_command) ==
    IF command_id = ApsDataRequest
    THEN [q EXCEPT !.enqueued_aps_data_request_commands =
                        Append(@, EnqueuedCommand(command_id, in_flight_command))]
    ELSE [q EXCEPT !.enqueued_commands =
                        Append(@, EnqueuedCommand(command_id, in_flight_command))]

\* update_device_state that sets the status and forgets the device state.
update_device_state_status_only(q, ds) ==
    [q EXCEPT !.aps_data_request_status =
                  IF ds.apsde_data_request_free_slots THEN "SlotsAvailable" ELSE "SlotsFull"]

\* update_device_state that reads the free-slots flag the wrong way round.
update_device_state_inverted(q, ds) ==
    [q EXCEPT !.aps_data_request_status =
                  IF ds.apsde_data_request_free_slots THEN "SlotsFull" ELSE "SlotsAvailable",
              !.device_state = Some(ds)]

\* update_device_state that keeps the first device state it was given.
update_device_state_first_only(q, ds) ==
    [q EXCEPT !.aps_data_request_status =
                  IF ds.apsde_data_request_free_slots THEN "SlotsAvailable" ELSE "SlotsFull",
              !.device_state = IF @ = None THEN Some(ds) ELSE @]

update_device_state(q, ds) ==
    [q EXCEPT !.aps_data_request_status =
                  IF ds.apsde_data_request_free_slots THEN "SlotsAvailable" ELSE "SlotsFull",
              !.device_state = Some(ds)]

\* take_in_flight_command that, on a miss, falls back to the oldest entry of
\* the command id.
take_in_flight_command_fallback(q, command_id, sequence_id) ==
    LET in_flight == q.in_flight_commands[command_id]
        s == IF sequence_id \in DOMAIN in_flight \/ DOMAIN in_flight = {}
             THEN sequence_id
             ELSE CHOOSE x \in DOMAIN in_flight : \A y \in DOMAIN in_flight : x <= y
    IN  IF s \in DOMAIN in_flight
        THEN [entry |-> Some(in_flight[s]),
              q |-> [q EXCEPT !.in_flight_commands[command_id] = MapRemove(in_flight, s)]]
        ELSE [entry |-> None, q |-> q]

\* take_in_flight_command that looks the entry up and leaves it in the map.
take_in_flight_command_get(q, command_id, sequence_id) ==
    LET key == InFlightKey(command_id, sequence_id)
        in_flight == q.in_flight_commands[key[1]]
    IN  IF key[2] \in DOMAIN in_flight
        THEN [entry |-> Some(in_flight[key[2]]), q |-> q]
        ELSE [entry |-> None, q |-> q]

\* Returns the entry (an Option) and the map without it.
take_in_flight_command(q, command_id, sequence_id) ==
    LET key == InFlightKey(command_id, sequence_id)
        in_flight == q.in_flight_commands[key[1]]
    IN  IF key[2] \in DOMAIN in_flight
        THEN [entry |-> Some(in_flight[key[2]]),
              q |-> [q EXCEPT !.in_flight_commands[key[1]] = MapRemove(in_flight, key[2])]]
        ELSE [entry |-> None, q |-> q]

\* put_u16_le
put_u16_le(n) == << n % 256, (n \div 256) % 256 >>

\* DeconzCommandRequest::payload_data of the request with this command id:
\* ReadConfirmDataRequest (an empty payload, not None), ReadDeviceStateRequest
\* (three reserved bytes), ReadFirmwareVersionRequest (put_u16_le(0)),
\* ReadReceivedDataRequest (put_u8(0x04)) and SendDataRequest, here of a
\* SendData to group address 0 with request id 0, an empty payload, no APS
\* acks and no radius.
payload_data(command_id) ==
    CASE command_id = ApsDataConfirm -> Some(<<>>)
      [] command_id = DeviceState -> Some(<<0, 0, 0>>)
      [] command_id = Version -> Some(put_u16_le(0))
      [] command_id = ApsDataIndication -> Some(<<4>>)
      [] command_id = ApsDataRequest ->
            Some(<<0, 0, 1>> \o put_u16_le(0) \o put_u16_le(0) \o put_u16_le(0)
                    \o <<0>> \o put_u16_le(0) \o <<0, 0>>)
      [] OTHER -> None

\* send_command that logs the write error and goes on.
send_command_ignore_error(q, enqueued_command) ==
    LET sequence_id == q.next_sequence_id
        key == InFlightKey(enqueued_command.command_id, sequence_id)
        in_flight == q.in_flight_commands[key[1]]
        replaced == IF key[2] \in DOMAIN in_flight /\ in_flight[key[2]].kind = "External"
                    THEN {in_flight[key[2]].call} ELSE {}
        frame == [command_id |-> enqueued_command.command_id,
                  sequence_id |-> sequence_id,
                  payload |-> payload_data(enqueued_command.command_id),
                  origin |-> enqueued_command.in_flight_command]
        write_ok == Len(q.tx) < q.writes_ok
    IN  [q EXCEPT !.next_sequence_id = (sequence_id + 1) % U8Mod,
                  !.in_flight_commands[key[1]] =
                      MapInsert(in_flight, key[2], enqueued_command.in_flight_command),
                  !.dropped = @ \cup replaced,
                  !.tx = IF write_ok THEN Append(@, frame) ELSE @,
                  !.write_error = @ \/ ~write_ok]

\* send_command with a sequence id that only the callers' commands advance.
send_command_internal_id_kept(q, enqueued_command) ==
    LET sequence_id == q.next_sequence_id
        key == InFlightKey(enqueued_command.command_id, sequence_id)
        in_flight == q.in_flight_commands[key[1]]
        replaced == IF key[2] \in DOMAIN in_flight /\ in_flight[key[2]].kind = "External"
                    THEN {in_flight[key[2]].call} ELSE {}
        frame == [command_id |-> enqueued_command.command_id,
                  sequence_id |-> sequence_id,
                  payload |-> payload_data(enqueued_command.command_id),
                  origin |-> enqueued_command.in_flight_command]
        write_ok == Len(q.tx) < q.writes_ok
    IN  [q EXCEPT !.next_sequence_id =
                      IF enqueued_command.in_flight_command.kind = "Internal"
                      THEN sequence_id ELSE (sequence_id + 1) % U8Mod,
                  !.in_flight_commands[key[1]] =
                      MapInsert(in_flight, key[2], enqueued_command.in_flight_command),
                  !.dropped = @ \cup replaced,
                  !.tx = IF write_ok THEN Append(@, frame) ELSE @,
                  !.write_error = @ \/ ~write_ok,
                  !.panicked = @ \/ ~write_ok]

\* HashMap::insert drops the entry it replaces, if any; dropping an External
\* entry drops its response_parser and with it the caller's one-shot sender.
send_command(q, enqueued_command) ==
    LET sequence_id == q.next_sequence_id
        key == InFlightKey(enqueued_command.command_id, sequence_id)
        in_flight == q.in_flight_commands[key[1]]
        replaced == IF key[2] \in DOMAIN in_flight /\ in_flight[key[2]].kind = "External"
                    THEN {in_flight[key[2]].call} ELSE {}
        frame == [command_id |-> enqueued_command.command_id,
                  sequence_id |-> sequence_id,
                  payload |-> payload_data(enqueued_command.command_id),
                  origin |-> enqueued_command.in_flight_command]
        write_ok == Len(q.tx) < q.writes_ok
    IN  [q EXCEPT !.next_sequence_id = (sequence_id + 1) % U8Mod,
                  !.in_flight_commands[key[1]] =
                      MapInsert(in_flight, key[2], enqueued_command.in_flight_command),
                  !.dropped = @ \cup replaced,
                  !.tx = IF write_ok THEN Append(@, frame) ELSE @,
                  !.write_error = @ \/ ~write_ok,
                  \* deconz_stream.write_frame(frame).await.unwrap()
                  !.panicked = @ \/ ~write_ok]

\* send_device_state_request without its in-flight check.
send_device_state_request_always(q) ==
    IF q.panicked
    THEN q
    ELSE send_command(q, new_internal(DeviceState))

send_device_state_request(q) ==
    IF q.panicked \/ has_in_flight_command_for_command_id(q, DeviceState)
    THEN q
    ELSE send_command(q, new_internal(DeviceState))

\* send_aps_data_confirm_read_request without its in-flight check.
send_aps_data_confirm_read_request_always(q) ==
    IF q.panicked
    THEN q
    ELSE send_command(q, new_internal(ApsDataConfirm))

send_aps_data_confirm_read_request(q) ==
    IF q.panicked \/ has_in_flight_command_for_command_id(q, ApsDataConfirm)
    THEN q
    ELSE send_command(q, new_internal(ApsDataConfirm))

\* send_aps_data_indication_read_request without its in-flight check.
send_aps_data_indication_read_request_always(q) ==
    IF q.panicked
    THEN q
    ELSE send_command(q, new_internal(ApsDataIndication))

send_aps_data_indication_read_request(q) ==
    IF q.panicked \/ has_in_flight_command_for_command_id(q, ApsDataIndication)
    THEN q
    ELSE send_command(q, new_internal(ApsDataIndication))

\* try_send_aps_data_request that leaves the status as it was.
try_send_aps_data_request_keep_status(q) ==
    IF q.panicked
       \/ ~has_slots_available(q.aps_data_request_status)
       \/ in_flight_commands_full(q)
       \/ q.enqueued_aps_data_request_commands = <<>>
    THEN q
    ELSE send_command(
            [q EXCEPT !.enqueued_aps_data_request_commands = Tail(@)],
            Head(q.enqueued_aps_data_request_commands))

\* try_send_aps_data_request without its check of the in-flight window.
try_send_aps_data_request_unbounded(q) ==
    IF q.panicked
       \/ ~has_slots_available(q.aps_data_request_status)
       \/ q.enqueued_aps_data_request_commands = <<>>
    THEN q
    ELSE send_command(
            [q EXCEPT !.enqueued_aps_data_request_commands = Tail(@),
                      !.aps_data_request_status = "PendingNextDeviceUpdate"],
            Head(q.enqueued_aps_data_request_commands))

try_send_aps_data_request(q) ==
    IF q.panicked
       \/ ~has_slots_available(q.aps_data_request_status)
       \/ in_flight_commands_full(q)
       \/ q.enqueued_aps_data_request_commands = <<>>
    THEN q
    ELSE send_command(
            [q EXCEPT !.enqueued_aps_data_request_commands = Tail(@),
                      !.aps_data_request_status = "PendingNextDeviceUpdate"],
            Head(q.enqueued_aps_data_request_commands))

\* while !self.in_flight_commands_full() { pop_front ... send_command }
RECURSIVE DrainEnqueuedCommands(_)
DrainEnqueuedCommands(q) ==
    IF q.panicked \/ in_flight_commands_full(q) \/ q.enqueued_commands = <<>>
    THEN q
    ELSE DrainEnqueuedCommands(
            send_command([q EXCEPT !.enqueued_commands = Tail(@)],
                         Head(q.enqueued_commands)))

\* try_io that goes on to the queued commands without a device state.
try_io_without_device_state(q) ==
    IF q.device_state = None
    THEN DrainEnqueuedCommands(send_device_state_request(q))
    ELSE LET ds == q.device_state[1]
             q1 == IF ds.apsde_data_indication
                   THEN send_aps_data_indication_read_request(q) ELSE q
             q2 == IF ds.apsde_data_confirm
                   THEN send_aps_data_confirm_read_request(q1) ELSE q1
             q3 == try_send_aps_data_request(q2)
         IN  DrainEnqueuedCommands(IF IsConnected(ds.network_state) THEN q3 ELSE q)

try_io(q) ==
    IF q.device_state = None
    THEN send_device_state_request(q)
    ELSE LET ds == q.device_state[1]
             q1 == IF ds.apsde_data_indication
                   THEN send_aps_data_indication_read_request(q) ELSE q
             q2 == IF ds.apsde_data_confirm
                   THEN send_aps_data_confirm_read_request(q1) ELSE q1
             q3 == try_send_aps_data_request(q2)
         IN  DrainEnqueuedCommands(IF IsConnected(ds.network_state) THEN q3 ELSE q)

(***************************************************************************)
(* Incoming frames.  A frame on the wire is [command_id, sequence_id,      *)
(* body]: body is <<>> when the frame carries fewer bytes than the         *)
(* response layout reads, and <<flags>> when it is complete, flags being   *)
(* the byte at the position of the device-state byte.                      *)
(***************************************************************************)
Frame(command_id, sequence_id, body) ==
    [kind |-> "frame", command_id |-> command_id, sequence_id |-> sequence_id,
     body |-> body]

\* next_frame() yielding Some(Err(_)): a SLIP, read or protocol error.
ReadError == [kind |-> "error", command_id |-> 0, sequence_id |-> 0, body |-> <<>>]

\* The responses whose layout carries a device-state byte.
CarriesDeviceState == { DeviceState, ApsDataRequest, ApsDataIndication, ApsDataConfirm }

\* DeconzCommandResponse::from_frame for the response type of command_id:
\* the Buf getters panic when the body is shorter than the layout.
from_frame(command_id, frame) ==
    [panic |-> frame.body = <<>>,
     device_state |->
        IF frame.body # <<>> /\ command_id \in CarriesDeviceState
        THEN Some(DeviceStateFromU8(frame.body[1])) ELSE None]

\* The closure built by DeconzClientHandle::send_command for `call`:
\* from_frame of the call's response type, tx.send(response).ok(), and the
\* device state handed back to the scheduler.
response_parser(q, call, frame) ==
    LET r == from_frame(calls[call].command_id, frame)
    IN  IF r.panic
        THEN [q |-> [q EXCEPT !.invoked = Append(@, call), !.dropped = @ \cup {call},
                              !.panicked = TRUE],
              device_state |-> None]
        ELSE [q |-> [q EXCEPT !.invoked = Append(@, call), !.delivered = @ \cup {call}],
              device_state |-> r.device_state]

\* The capacity given to broadcast::channel.
aps_data_indication_capacity == 128

\* DeconzBroadcastChannels::new: the channel is empty and its only receiver
\* has been dropped.  pos is the position of the next value sent, buffer the
\* values the channel retains (the one at position pos - 1 last), receivers
\* the receivers alive, by the call that subscribed.  A value is named by
\* its number among the values published (published is their count).
new_broadcast_channels ==
    [ pos |-> 0, buffer |-> <<>>, published |-> 0, receivers |-> EmptyMap ]

\* subscribe that hands out a receiver starting at the oldest retained value.
subscribe_aps_data_indication_from_oldest(b, call) ==
    [b EXCEPT !.receivers =
        MapInsert(@, call, [next |-> b.pos - Len(b.buffer), handled_at |-> b.published,
                            yielded |-> <<>>])]

\* self.aps_data_indication.subscribe(): a receiver whose next value is the
\* next one sent.  handled_at and yielded record the number of values
\* published before, and the values recv has returned.
subscribe_aps_data_indication(b, call) ==
    [b EXCEPT !.receivers =
        MapInsert(@, call, [next |-> b.pos, handled_at |-> b.published, yielded |-> <<>>])]

\* A send that refuses the value when the ring is full.
broadcast_aps_data_indication_reject_when_full(b) ==
    LET data == b.published + 1
    IN  IF DOMAIN b.receivers = {} \/ Len(b.buffer) = aps_data_indication_capacity
        THEN [b EXCEPT !.published = data]
        ELSE [b EXCEPT !.published = data,
                       !.pos = @ + 1,
                       !.buffer = Append(@, data)]

\* self.aps_data_indication.send(data).ok(): with no receiver alive send
\* returns Err and stores nothing; otherwise it writes the slot of position
\* pos, which held the value `capacity` positions back, and never waits.
broadcast_aps_data_indication(b) ==
    LET data == b.published + 1
    IN  IF DOMAIN b.receivers = {}
        THEN [b EXCEPT !.published = data]
        ELSE [b EXCEPT !.published = data,
                       !.pos = @ + 1,
                       !.buffer = IF Len(@) = aps_data_indication_capacity
                                  THEN Append(Tail(@), data) ELSE Append(@, data)]

\* The position of the oldest value the channel retains.
OldestPos(b) == b.pos - Len(b.buffer)

\* Receiver::recv with a value sent and not yet seen: Err(Lagged(_)) moves
\* the receiver to the oldest retained value when the slot of its next
\* position has been overwritten; otherwise the value is cloned out.
recv(b, call) ==
    LET r == b.receivers[call]
    IN  IF r.next < OldestPos(b)
        THEN [b EXCEPT !.receivers[call].next = OldestPos(b)]
        ELSE [b EXCEPT !.receivers[call].next = @ + 1,
                       !.receivers[call].yielded =
                           Append(@, b.buffer[r.next - OldestPos(b) + 1])]

\* from_frame comes first: when it panics nothing is published.
handle_aps_data_indication_response(q) ==
    [q EXCEPT !.broadcast_channels = broadcast_aps_data_indication(@)]

handle_in_flight_command_internal_response(q, frame) ==
    IF frame.command_id \in { ApsDataIndication, ApsDataConfirm, DeviceState }
    THEN LET r == from_frame(frame.command_id, frame)
             q1 == IF frame.command_id = ApsDataIndication /\ ~r.panic
                   THEN handle_aps_data_indication_response(q) ELSE q
         IN  [q |-> [q1 EXCEPT !.panicked = @ \/ r.panic], device_state |-> r.device_state]
    ELSE [q |-> q, device_state |-> None]

\* handle_deconz_frame that takes a device state from the MAC indications.
handle_deconz_frame_mac_state(q, frame) ==
    LET r ==
          IF frame.command_id = DeviceStateChanged
          THEN \* deconz_frame.get_u8().into()
               IF frame.body = <<>>
               THEN [q |-> [q EXCEPT !.panicked = TRUE], device_state |-> None]
               ELSE [q |-> q, device_state |-> Some(DeviceStateFromU8(frame.body[1]))]
          ELSE IF frame.command_id \in { MacBeaconIndication, MacPollIndication }
          THEN [q |-> [q EXCEPT !.panicked = from_frame(frame.command_id, frame).panic],
                device_state |-> IF frame.body = <<>> THEN None
                                 ELSE Some(DeviceStateFromU8(frame.body[1]))]
          ELSE LET t == take_in_flight_command(q, frame.command_id, frame.sequence_id)
               IN  IF t.entry = None
                   THEN [q |-> t.q, device_state |-> None]
                   ELSE IF t.entry[1].kind = "External"
                   THEN response_parser(t.q, t.entry[1].call, frame)
                   ELSE handle_in_flight_command_internal_response(t.q, frame)
        dispatch ==
          IF frame.command_id
                \in { DeviceStateChanged, MacBeaconIndication, MacPollIndication }
          THEN "unsolicited"
          ELSE LET t == take_in_flight_command(q, frame.command_id, frame.sequence_id)
               IN  IF t.entry = None THEN "unmatched"
                   ELSE IF t.entry[1].kind = "External" THEN "external" ELSE "internal"
    IN  IF r.q.panicked \/ r.device_state = None
        THEN [r.q EXCEPT !.dispatch = dispatch]
        ELSE [update_device_state(r.q, r.device_state[1]) EXCEPT
                !.observed = Append(@, r.device_state[1]),
                !.dispatch = dispatch]

handle_deconz_frame(q, frame) ==
    LET r ==
          IF frame.command_id = DeviceStateChanged
          THEN \* deconz_frame.get_u8().into()
               IF frame.body = <<>>
               THEN [q |-> [q EXCEPT !.panicked = TRUE], device_state |-> None]
               ELSE [q |-> q, device_state |-> Some(DeviceStateFromU8(frame.body[1]))]
          ELSE IF frame.command_id \in { MacBeaconIndication, MacPollIndication }
          THEN [q |-> [q EXCEPT !.panicked = from_frame(frame.command_id, frame).panic],
                device_state |-> None]
          ELSE LET t == take_in_flight_command(q, frame.command_id, frame.sequence_id)
               IN  IF t.entry = None
                   THEN [q |-> t.q, device_state |-> None]
                   ELSE IF t.entry[1].kind = "External"
                   THEN response_parser(t.q, t.entry[1].call, frame)
                   ELSE handle_in_flight_command_internal_response(t.q, frame)
        dispatch ==
          IF frame.command_id
                \in { DeviceStateChanged, MacBeaconIndication, MacPollIndication }
          THEN "unsolicited"
          ELSE LET t == take_in_flight_command(q, frame.command_id, frame.sequence_id)
               IN  IF t.entry = None THEN "unmatched"
                   ELSE IF t.entry[1].kind = "External" THEN "external" ELSE "internal"
    IN  IF r.q.panicked \/ r.device_state = None
        THEN [r.q EXCEPT !.dispatch = dispatch]
        ELSE [update_device_state(r.q, r.device_state[1]) EXCEPT
                !.observed = Append(@, r.device_state[1]),
                !.dispatch = dispatch]

(***************************************************************************)
(* The queue of the current state as a record, and back.                   *)
(***************************************************************************)
Queue ==
    [ next_sequence_id |-> next_sequence_id,
      device_state |-> device_state,
      aps_data_request_status |-> aps_data_request_status,
      enqueued_commands |-> enqueued_commands,
      enqueued_aps_data_request_commands |-> enqueued_aps_data_request_commands,
      in_flight_commands |-> in_flight_commands,
      broadcast_channels |-> broadcast_channels,
      tx |-> <<>>, writes_ok |-> 0, panicked |-> FALSE,
      dropped |-> {}, invoked |-> <<>>, delivered |-> {}, observed |-> <<>>,
      write_error |-> FALSE, dispatch |-> "none" ]

\* More writes than one pacing step can make: every write_frame returns Ok.
AllWritesOk == MAX_IN_FLIGHT_COMMANDS + 3

Count(seq, x) == Cardinality({ i \in DOMAIN seq : seq[i] = x })

\* The calls whose one-shot sender is owned by an entry of `entries`.
CallsOf(entries) ==
    { entries[i].in_flight_command.call :
        i \in { j \in DOMAIN entries : entries[j].in_flight_command.kind = "External" } }

\* The one-shots and ghost fields of the calls after a step of the queue:
\* response is the key of the frame the call was resolved with, sequence_id
\* the sequence id its request was written with.
CallsAfter(q, frame) ==
    [ c \in DOMAIN calls |->
        [ calls[c] EXCEPT
            !.oneshot = IF c \in q.delivered /\ @ = "open" THEN "sent"
                        ELSE IF c \in q.dropped /\ @ = "open" THEN "closed"
                        ELSE @,
            !.response = IF c \in q.delivered
                         THEN <<frame.command_id, frame.sequence_id>> ELSE @,
            !.invoked = @ + Count(q.invoked, c),
            !.sequence_id =
                LET w == { i \in DOMAIN q.tx : q.tx[i].origin = External(c) }
                IN  IF w = {} THEN @ ELSE <<q.tx[CHOOSE i \in w : TRUE].sequence_id>> ] ]

SetQueue(q) ==
    /\ next_sequence_id' = q.next_sequence_id
    /\ device_state' = q.device_state
    /\ aps_data_request_status' = q.aps_data_request_status
    /\ enqueued_commands' = q.enqueued_commands
    /\ enqueued_aps_data_request_commands' = q.enqueued_aps_data_request_commands
    /\ in_flight_commands' = q.in_flight_commands
    /\ broadcast_channels' = q.broadcast_channels

UnchangedQueue ==
    UNCHANGED << next_sequence_id, device_state, aps_data_request_status,
                 enqueued_commands, enqueued_aps_data_request_commands,
                 in_flight_commands, broadcast_channels >>

(***************************************************************************)
(* The frame codec.  Bytes are sequences of numbers in 0 .. 255.  A        *)
(* DeconzFrame is [command_id, sequence_number, status, inner]: for an     *)
(* outgoing frame status is None and inner the optional command payload,   *)
(* for an incoming frame status is Some(code) and inner the bytes that     *)
(* follow the header.                                                      *)
(***************************************************************************)
U16Mod == 65536

\* DeconzFrame::new
DeconzFrame_new(command_id, sequence_number, command_payload) ==
    [ command_id |-> command_id, sequence_number |-> sequence_number,
      status |-> None, inner |-> command_payload ]

\* frame_len as u16 keeps the low 16 bits.
header_bytes(frame) ==
    LET frame_len == IF frame.inner = None THEN 5 ELSE 5 + 2 + Len(frame.inner[1])
    IN  << frame.command_id, frame.sequence_number, 0 >> \o put_u16_le(frame_len % U16Mod)

\* panic: bytes.len() does not fit a u16.
packet_bytes(frame) ==
    [ panic |-> frame.inner # None /\ Len(frame.inner[1]) >= U16Mod,
      bytes |-> IF frame.inner = None
                THEN header_bytes(frame)
                ELSE header_bytes(frame) \o put_u16_le(Len(frame.inner[1]) % U16Mod)
                        \o frame.inner[1] ]

\* input.iter().fold(0u16, |acc, el| acc.wrapping_add(*el as _)) over the
\* bytes lo .. hi.  Addition modulo 2^16 is associative, so the fold is
\* evaluated by halves, which keeps the evaluation shallow on long inputs.
RECURSIVE wrapping_sum(_, _, _)
wrapping_sum(input, lo, hi) ==
    IF lo > hi THEN 0
    ELSE IF lo = hi THEN input[lo] % U16Mod
    ELSE LET mid == (lo + hi) \div 2
         IN  (wrapping_sum(input, lo, mid) + wrapping_sum(input, mid + 1, hi)) % U16Mod

\* DeconzCrc::generate.  !sum + 1 is an addition of u16: for sum = 0 it
\* overflows, which panics in a build with overflow checks (the debug
\* profile) and wraps to 0 in a build without them (the release profile).
generate(input) ==
    LET sum == wrapping_sum(input, 1, Len(input))
        negated == ((U16Mod - 1 - sum) + 1) % U16Mod
    IN  [ overflow |-> sum = 0,
          crc |-> << negated % 256, (negated \div 256) % 256 >> ]

\* DeconzFrame<OutgoingPacket>::encode
encode(frame) ==
    LET packet == packet_bytes(frame)
        crc == generate(packet.bytes)
    IN  [ panic |-> packet.panic, overflow |-> crc.overflow,
          bytes |-> packet.bytes \o crc.crc ]

\* DeconzCommandRequest::as_frame
as_frame(command_id, sequence_id) ==
    DeconzFrame_new(command_id, sequence_id, payload_data(command_id))

\* The u8 values of enum CommandType.
CommandTypes == CommandIds \cup { 8, 10, 11, 33 }

\* Result<DeconzFrame<Bytes>, _>, with the frame or the error left blank.
Ok(frame) == [ ok |-> TRUE, error |-> "", frame |-> frame ]
Err(error) ==
    [ ok |-> FALSE, error |-> error,
      frame |-> [ command_id |-> 0, sequence_number |-> 0, status |-> None,
                  inner |-> <<>> ] ]

\* impl TryFrom<u8> for CommandType, as the error it returns ("" for Ok).
CommandTypeFromU8(value) == IF value \in CommandTypes THEN "" ELSE "UnknownCommandId"

\* impl TryFrom<u8> for StatusCode: its last arm returns UnknownCommandId.
StatusCodeFromU8(value) == IF value \in 0 .. 7 THEN "" ELSE "UnknownCommandId"

\* DeconzFrame::parse_incoming
parse_incoming(frame) ==
    IF Len(frame) < 5 THEN Err("SmallFrame")
    ELSE IF CommandTypeFromU8(frame[1]) # "" THEN Err(CommandTypeFromU8(frame[1]))
    ELSE IF StatusCodeFromU8(frame[3]) # "" THEN Err(StatusCodeFromU8(frame[3]))
    ELSE LET reported_frame_length == frame[4] + 256 * frame[5]
             rest == SubSeq(frame, 6, Len(frame))
         IN  IF Len(rest) > reported_frame_length
             THEN Err("LargeFrame")
             ELSE Ok([ command_id |-> frame[1], sequence_number |-> frame[2],
                       status |-> Some(frame[3]), inner |-> rest ])

\* DeconzCrc::verify_frame: the CRC value is not looked at.
verify_frame(crc, payload) == parse_incoming(payload)

\* read_frame: from_values gets the two bytes split off and cannot fail.
read_frame(bytes) ==
    IF Len(bytes) < 2
    THEN Err("Read")
    ELSE verify_frame(SubSeq(bytes, Len(bytes) - 1, Len(bytes)),
                      SubSeq(bytes, 1, Len(bytes) - 2))

\* No frame is under way.
NoCodec ==
    [ pc |-> "idle", frame |-> DeconzFrame_new(DeviceState, 0, None), bytes |-> <<>>,
      result |-> Err(""), value |-> None, parsed |-> None ]

(***************************************************************************)
(* Init: DeconzClient::start has created the channel and spawned           *)
(* DeconzTask::run, which has not yet opened the serial device.            *)
(***************************************************************************)
TaskCreated ==
    /\ pc = "connect"
    /\ disabled = {}
    /\ next_sequence_id = 0
    /\ device_state = None
    /\ aps_data_request_status = "PendingNextDeviceUpdate"
    /\ enqueued_commands = <<>>
    /\ enqueued_aps_data_request_commands = <<>>
    /\ in_flight_commands = [c \in CommandIds |-> EmptyMap]
    /\ inbox = <<>>
    /\ handles_alive = TRUE
    /\ wire = <<>>
    /\ frames_left = MaxFrames
    /\ calls_left = MaxCalls
    /\ calls = <<>>
    /\ tx = <<>>
    /\ aps_sent_since_update = 0
    /\ last_observation = None
    /\ write_error = FALSE
    /\ last_dispatch = "none"
    /\ num_written = 0
    /\ broadcast_channels = new_broadcast_channels

Init == TaskCreated /\ codec = NoCodec

(***************************************************************************)
(* A later point of a run, for the cases that need a full in-flight window *)
(* or a wrapped sequence id.  The first internal DeviceState read (id 0)   *)
(* was answered with 0x22; callers then sent MAX_IN_FLIGHT_COMMANDS - 1    *)
(* Version requests (ids 1..15) that the device has not answered, and 241  *)
(* further requests that it has: 257 frames were written, next_sequence_id *)
(* has wrapped to 1, and the task is waiting in select!.                   *)
(***************************************************************************)
WarmPending == 1 .. (MAX_IN_FLIGHT_COMMANDS - 1)

InitWarm ==
    /\ pc = "select"
    /\ disabled = {}
    /\ next_sequence_id = 1
    /\ device_state = Some(DeviceStateFromU8(34))
    /\ aps_data_request_status = "SlotsAvailable"
    /\ enqueued_commands = <<>>
    /\ enqueued_aps_data_request_commands = <<>>
    /\ in_flight_commands =
          [c \in CommandIds |->
              IF c = Version THEN [s \in WarmPending |-> External(s)] ELSE EmptyMap]
    /\ inbox = <<>>
    /\ handles_alive = TRUE
    /\ wire = <<>>
    /\ frames_left = MaxWarmFrames
    /\ calls_left = MaxWarmCalls
    /\ calls = [c \in WarmPending |->
                  [ kind |-> "CommandRequest", command_id |-> Version,
                    accepted |-> TRUE, oneshot |-> "open", sequence_id |-> <<c>>,
                    response |-> <<>>, invoked |-> 0 ]]
    /\ tx = <<>>
    /\ aps_sent_since_update = 0
    /\ last_observation = Some(DeviceStateFromU8(34))
    /\ write_error = FALSE
    /\ last_dispatch = "none"
    /\ num_written = U8Mod + 1
    /\ broadcast_channels = new_broadcast_channels
    /\ codec = NoCodec

(***************************************************************************)
(* DeconzTask::run                                                         *)
(***************************************************************************)
\* let serial_stream = self.connect_serial()?;
ConnectSerial ==
    /\ pc = "connect"
    /\ pc' = "try_io"
    /\ UNCHANGED << disabled, inbox, handles_alive, wire, frames_left, calls_left, calls, tx,
                    aps_sent_since_update, last_observation, write_error, last_dispatch, num_written, codec >>
    /\ UnchangedQueue

\* connect_serial returns Err: run returns before its loop.
ConnectSerialError ==
    /\ pc = "connect"
    /\ pc' = "exiting"
    /\ UNCHANGED << disabled, inbox, handles_alive, wire, frames_left, calls_left, calls, tx,
                    aps_sent_since_update, last_observation, write_error, last_dispatch, num_written, codec >>
    /\ UnchangedQueue

NumApsDataRequests(frames) ==
    Cardinality({ i \in DOMAIN frames : frames[i].command_id = ApsDataRequest })

\* The pacing step with `writes_ok` successful writes.
PacingStep(writes_ok) ==
    LET q == try_io([Queue EXCEPT !.writes_ok = writes_ok])
    IN  /\ SetQueue(q)
        /\ tx' = q.tx
        /\ calls' = CallsAfter(q, ReadError)
        /\ aps_sent_since_update' = aps_sent_since_update + NumApsDataRequests(q.tx)
        /\ pc' = IF q.panicked THEN "exiting" ELSE "select"
        /\ disabled' = {}
        /\ write_error' = (write_error \/ q.write_error)
        /\ last_dispatch' = "none"
        /\ num_written' = num_written + Len(q.tx)
        /\ UNCHANGED << inbox, handles_alive, wire, frames_left, calls_left,
                        last_observation, codec >>

\* self.queue.try_io(&mut deconz_stream).await, every write_frame returning Ok.
TryIo ==
    /\ pc = "try_io"
    /\ PacingStep(AllWritesOk)

\* The same with a write_frame that returns Err: send_command unwraps it.
TryIoWriteError ==
    /\ pc = "try_io"
    /\ \E n \in 0 .. (Len(try_io([Queue EXCEPT !.writes_ok = AllWritesOk]).tx) - 1) :
          PacingStep(n)

\* A branch of select! whose future completes without matching its pattern is
\* disabled; with every branch disabled and no else branch, select! panics.
DisableBranch(branch) ==
    /\ disabled' = disabled \cup {branch}
    /\ pc' = IF disabled' = {"frame", "rx"} THEN "exiting" ELSE "select"

\* Some(Ok(frame)) = deconz_stream.next_frame() => handle_deconz_frame(frame)
ReadFrame ==
    /\ pc = "select"
    /\ "frame" \notin disabled
    /\ wire # <<>>
    /\ Head(wire).kind = "frame"
    /\ LET q == handle_deconz_frame(Queue, Head(wire))
       IN  /\ SetQueue(q)
           /\ calls' = CallsAfter(q, Head(wire))
           /\ aps_sent_since_update' = IF q.observed # <<>> THEN 0 ELSE aps_sent_since_update
           /\ last_observation' = IF q.observed # <<>>
                                  THEN Some(q.observed[Len(q.observed)])
                                  ELSE last_observation
           /\ pc' = IF q.panicked THEN "exiting" ELSE "try_io"
           /\ last_dispatch' = q.dispatch
    /\ wire' = Tail(wire)
    /\ disabled' = {}
    /\ UNCHANGED << inbox, handles_alive, frames_left, calls_left, tx, write_error,
                    num_written, codec >>

\* next_frame() yields Some(Err(_)): the pattern does not match.
ReadFrameError ==
    /\ pc = "select"
    /\ "frame" \notin disabled
    /\ wire # <<>>
    /\ Head(wire).kind = "error"
    /\ wire' = Tail(wire)
    /\ DisableBranch("frame")
    /\ UNCHANGED << inbox, handles_alive, frames_left, calls_left, calls, tx,
                    aps_sent_since_update, last_observation, write_error, last_dispatch, num_written, codec >>
    /\ UnchangedQueue

\* Some(task_message) = self.task_rx.recv() => handle_task_message(task_message)
RecvTaskMessage ==
    /\ pc = "select"
    /\ "rx" \notin disabled
    /\ inbox # <<>>
    /\ LET task_message == Head(inbox)
       IN  IF task_message.kind = "CommandRequest"
           THEN /\ SetQueue(enqueue_command(Queue, task_message.command_id,
                                            External(task_message.call)))
                /\ calls' = calls
           ELSE \* SubscribeRequest: sender.send(receiver).ok(); a receiver
                \* that cannot be sent is dropped with the result of send.
                /\ SetQueue(IF calls[task_message.call].oneshot = "open"
                            THEN [Queue EXCEPT !.broadcast_channels =
                                    subscribe_aps_data_indication(@, task_message.call)]
                            ELSE Queue)
                /\ calls' = [calls EXCEPT ![task_message.call].oneshot =
                                IF @ = "open" THEN "sent" ELSE @]
    /\ inbox' = Tail(inbox)
    /\ pc' = "try_io"
    /\ disabled' = {}
    /\ UNCHANGED << handles_alive, wire, frames_left, calls_left, tx, aps_sent_since_update,
                    last_observation, write_error, last_dispatch, num_written, codec >>

\* recv() yields None: the channel is empty and every sender is gone.
RecvClosed ==
    /\ pc = "select"
    /\ "rx" \notin disabled
    /\ inbox = <<>>
    /\ ~handles_alive
    /\ DisableBranch("rx")
    /\ UNCHANGED << inbox, handles_alive, wire, frames_left, calls_left, calls, tx,
                    aps_sent_since_update, last_observation, write_error, last_dispatch, num_written, codec >>
    /\ UnchangedQueue

\* HeldCalls without the messages that are still in the inbox.
HeldCalls_without_inbox ==
    CallsOf(enqueued_commands)
    \cup CallsOf(enqueued_aps_data_request_commands)
    \cup { in_flight_commands[k[1]][k[2]].call :
             k \in { x \in InFlightKeys(in_flight_commands) :
                       in_flight_commands[x[1]][x[2]].kind = "External" } }

\* The calls whose one-shot sender is held by the task: in a message of the
\* inbox, in an entry of a queue, or in an in-flight entry.
HeldCalls ==
    { inbox[i].call : i \in DOMAIN inbox }
    \cup CallsOf(enqueued_commands)
    \cup CallsOf(enqueued_aps_data_request_commands)
    \cup { in_flight_commands[k[1]][k[2]].call :
             k \in { x \in InFlightKeys(in_flight_commands) :
                       in_flight_commands[x[1]][x[2]].kind = "External" } }

\* run has returned or panicked: the runtime drops the task, and with it the
\* stream, task_rx (and the messages still in it) and the queue.
DropTask ==
    /\ pc = "exiting"
    /\ pc' = "dead"
    /\ disabled' = {}
    /\ inbox' = <<>>
    /\ enqueued_commands' = <<>>
    /\ enqueued_aps_data_request_commands' = <<>>
    /\ in_flight_commands' = [c \in CommandIds |-> EmptyMap]
    /\ calls' = [c \in DOMAIN calls |->
                    [calls[c] EXCEPT !.oneshot =
                        IF c \in HeldCalls /\ @ = "open" THEN "closed" ELSE @]]
    /\ wire' = <<>>
    /\ frames_left' = 0
    /\ calls_left' = calls_left
    /\ last_dispatch' = "none"
    /\ UNCHANGED << next_sequence_id, device_state, aps_data_request_status,
                    handles_alive, tx, aps_sent_since_update, last_observation,
                    write_error, num_written, broadcast_channels, codec >>

(***************************************************************************)
(* DeconzClientHandle                                                      *)
(***************************************************************************)
\* accepted: task_tx.send returned Ok, the message went into the inbox.
NewCall(kind, command_id, sent) ==
    [ kind |-> kind, command_id |-> command_id, accepted |-> sent,
      oneshot |-> IF sent THEN "open" ELSE "closed",
      sequence_id |-> <<>>, response |-> <<>>, invoked |-> 0 ]

\* task_tx.send(task_message): Err once task_rx has been dropped.  The task
\* looks at its inbox only inside select!: a message sent during a pacing
\* step is seen exactly as if it was sent right after it.
Submit(kind, command_id) ==
    /\ pc \in { "select", "exiting", "dead" }
    /\ handles_alive
    /\ calls_left > 0
    /\ calls_left' = calls_left - 1
    /\ calls' = Append(calls, NewCall(kind, command_id, pc # "dead"))
    /\ inbox' = IF pc # "dead"
                THEN Append(inbox, [kind |-> kind, command_id |-> command_id,
                                    call |-> Len(calls) + 1])
                ELSE inbox
    /\ UNCHANGED << pc, disabled, handles_alive, wire, frames_left, tx,
                    aps_sent_since_update, last_observation, write_error, last_dispatch, num_written, codec >>
    /\ UnchangedQueue

SendCommand == \E command_id \in CallerCommands : Submit("CommandRequest", command_id)

SubscribeApsDataIndication == Submit("SubscribeRequest", ApsDataIndication)

\* rx.await.map_err(|_| HandleError::TaskFailure): what the call returns (or
\* will return once its task is polled) is decided by its one-shot.
Outcome(call) ==
    CASE call.oneshot = "open" -> "waiting"
      [] call.oneshot = "sent" -> "Ok"
      [] call.oneshot = "closed" -> "TaskFailure"
      [] call.oneshot = "rx_dropped" -> "abandoned"

\* A caller stops awaiting its call (a timeout around it, a cancelled task):
\* the future of send_command or subscribe is dropped, and its receiver with
\* it.  Callers give up in the order they called: the longest wait ends
\* first.  The task sees a one-shot only in the step that sends on it.
DropReceiver ==
    /\ pc = "select"
    /\ Cardinality({ c \in DOMAIN calls : calls[c].oneshot = "rx_dropped" })
          < MaxDroppedReceivers
    /\ \E c \in DOMAIN calls :
          /\ calls[c].oneshot = "open"
          /\ \A d \in 1 .. (c - 1) : calls[d].oneshot # "open"
          /\ calls' = [calls EXCEPT ![c].oneshot = "rx_dropped"]
    /\ UNCHANGED << pc, disabled, inbox, handles_alive, wire, frames_left, calls_left, tx,
                    aps_sent_since_update, last_observation, write_error, last_dispatch, num_written, codec >>
    /\ UnchangedQueue

\* The last clone of the handle is dropped; a call that is still awaiting
\* its result borrows its handle.
DropHandles ==
    /\ pc \in { "select", "dead" }
    /\ handles_alive
    /\ \A c \in DOMAIN calls : Outcome(calls[c]) # "waiting"
    /\ handles_alive' = FALSE
    /\ UNCHANGED << pc, disabled, inbox, wire, frames_left, calls_left, calls, tx,
                    aps_sent_since_update, last_observation, write_error, last_dispatch, num_written, codec >>
    /\ UnchangedQueue

\* A subscriber awaits recv() on its receiver while a value it has not seen
\* has been sent.  The channel is behind a lock and the task sends only
\* while it dispatches a frame, so a recv during a pacing step is seen
\* exactly as if it was made right after it.  The values the channel
\* retains outlive the sender.
BroadcastRecv ==
    /\ pc \in { "select", "dead" }
    /\ \E call \in DOMAIN broadcast_channels.receivers :
          /\ broadcast_channels.receivers[call].next < broadcast_channels.pos
          /\ broadcast_channels' = recv(broadcast_channels, call)
    /\ UNCHANGED << pc, disabled, next_sequence_id, device_state, aps_data_request_status,
                    enqueued_commands, enqueued_aps_data_request_commands,
                    in_flight_commands, inbox, handles_alive, wire, frames_left,
                    calls_left, calls, tx, aps_sent_since_update, last_observation,
                    write_error, last_dispatch, num_written, codec >>

(***************************************************************************)
(* The device.                                                             *)
(***************************************************************************)
Bodies == { <<>> } \cup { <<b>> : b \in DeviceStateBytes }

\* For a response without a device-state byte only the length matters.
ResponseBodies(command_id) ==
    IF command_id \in CarriesDeviceState THEN Bodies ELSE { <<>>, <<34>> }

\* What the device may put on the wire next: a response to a request in
\* flight, a response nobody waits for, an unsolicited frame, or bytes that
\* do not decode.
DeviceItems ==
    { Frame(x[1][1], x[1][2], x[2]) :
        x \in { y \in InFlightKeys(in_flight_commands) \X Bodies :
                  y[2] \in ResponseBodies(y[1][1]) } }
    \cup { Frame(Version, next_sequence_id, <<34>>),
           Frame(DeviceState, next_sequence_id, <<14>>) }
    \cup { Frame(DeviceStateChanged, 0, b) : b \in Bodies }
    \cup { Frame(MacBeaconIndication, 0, b) : b \in { <<>>, <<34>> } }
    \cup { Frame(MacPollIndication, 0, <<34>>) }
    \cup { ReadError }

\* The task looks at the wire only inside select!: what arrives during a
\* pacing step is seen exactly as if it arrived right after it.
DeviceSend ==
    /\ pc = "select"
    /\ frames_left > 0
    /\ Len(wire) < MaxWire
    /\ \E item \in DeviceItems : wire' = Append(wire, item)
    /\ frames_left' = frames_left - 1
    /\ calls_left' = calls_left
    /\ UNCHANGED << pc, disabled, inbox, handles_alive, calls, tx,
                    aps_sent_since_update, last_observation, write_error, last_dispatch, num_written, codec >>
    /\ UnchangedQueue

\* The device answers the read of received data that is in flight, and
\* reports more data to read (flags 0x0E).
DeviceSendIndication ==
    /\ pc = "select"
    /\ frames_left > 0
    /\ Len(wire) < MaxWire
    /\ \E sequence_id \in DOMAIN in_flight_commands[ApsDataIndication] :
          wire' = Append(wire, Frame(ApsDataIndication, sequence_id, <<14>>))
    /\ frames_left' = frames_left - 1
    /\ calls_left' = calls_left
    /\ UNCHANGED << pc, disabled, inbox, handles_alive, calls, tx,
                    aps_sent_since_update, last_observation, write_error, last_dispatch,
                    num_written, codec >>
    /\ UnchangedQueue

\* The steps of a task that has entered its loop, of its callers and of the
\* device.
Running ==
    \/ TryIo
    \/ TryIoWriteError
    \/ ReadFrame
    \/ ReadFrameError
    \/ RecvTaskMessage
    \/ DropTask
    \/ SendCommand
    \/ SubscribeApsDataIndication
    \/ DropReceiver
    \/ DeviceSend

Next ==
    \/ ConnectSerial
    \/ ConnectSerialError
    \/ RecvClosed
    \/ DropHandles
    \/ BroadcastRecv
    \/ Running

Spec == Init /\ [][Next]_vars

\* The task has dispatched the response to its first device-state read,
\* which reports received data to read (flags 0x0E), and a subscription
\* message sent meanwhile waits in the inbox; the device has MaxPublished
\* indications to hand over.
InitBroadcast ==
    /\ pc = "try_io"
    /\ disabled = {}
    /\ next_sequence_id = 1
    /\ device_state = Some(DeviceStateFromU8(14))
    /\ aps_data_request_status = "SlotsFull"
    /\ enqueued_commands = <<>>
    /\ enqueued_aps_data_request_commands = <<>>
    /\ in_flight_commands = [c \in CommandIds |-> EmptyMap]
    /\ inbox = << [kind |-> "SubscribeRequest", command_id |-> ApsDataIndication,
                   call |-> 1] >>
    /\ handles_alive = TRUE
    /\ wire = <<>>
    /\ frames_left = MaxPublished
    /\ calls_left = 0
    /\ calls = << NewCall("SubscribeRequest", ApsDataIndication, TRUE) >>
    /\ tx = << [command_id |-> DeviceState, sequence_id |-> 0,
                payload |-> payload_data(DeviceState), origin |-> Internal] >>
    /\ aps_sent_since_update = 0
    /\ last_observation = Some(DeviceStateFromU8(14))
    /\ write_error = FALSE
    /\ last_dispatch = "internal"
    /\ num_written = 1
    /\ broadcast_channels = new_broadcast_channels
    /\ codec = NoCodec

\* The task publishes one indication after the other; the subscription is
\* handled at any moment, and the subscriber is idle until the device has
\* nothing more to report.
Publishing ==
    \/ TryIo
    \/ ReadFrame
    \/ RecvTaskMessage
    \/ DeviceSendIndication
    \/ (frames_left = 0 /\ wire = <<>> /\ BroadcastRecv)

SpecBroadcast == InitBroadcast /\ [][Publishing]_vars

\* The frames given to encode: every command id the scheduler handles, a
\* few sequence ids, no payload, short payloads and a long one.
MaxFill == 256
CodecSequenceIds == { 0, 1, 234, 255 }
\* Body lengths around the largest that fits: with U16Mod - 8 bytes the frame
\* is u16::MAX bytes long, and u16::MAX is the longest body packet_bytes takes.
LongBodyLengths == { U16Mod - 8, U16Mod - 7, U16Mod - 1 }
CodecPayloads ==
    { None }
    \cup { Some(b) : b \in { <<>>, <<0>>, <<1>>, <<4>>, <<1, 2>>, <<255, 255>>,
                              [i \in 1 .. MaxFill |-> 255] } }
    \cup { payload_data(command_id) : command_id \in CommandIds }
    \cup { Some([i \in 1 .. n |-> 1]) : n \in LongBodyLengths }

InitCodec ==
    /\ TaskCreated
    /\ \E command_id \in CommandIds, sequence_number \in CodecSequenceIds,
          command_payload \in CodecPayloads :
          codec = [ NoCodec EXCEPT
                      !.pc = "new",
                      !.frame = DeconzFrame_new(command_id, sequence_number,
                                                command_payload) ]

UnchangedTask ==
    UNCHANGED << pc, disabled, next_sequence_id, device_state, aps_data_request_status,
                 enqueued_commands, enqueued_aps_data_request_commands,
                 in_flight_commands, inbox, handles_alive, wire, frames_left,
                 calls_left, calls, tx, aps_sent_since_update, last_observation,
                 write_error, last_dispatch, num_written, broadcast_channels >>

\* payload.encode() returns the bytes (in a build where the overflow wraps,
\* or with no overflow).
Encode ==
    /\ codec.pc = "new"
    /\ ~encode(codec.frame).panic
    /\ codec' = [codec EXCEPT !.pc = "encoded", !.bytes = encode(codec.frame).bytes]
    /\ UnchangedTask

\* payload.encode() panics: the payload is too long, or the sum overflows in
\* a build with overflow checks.
EncodePanic ==
    /\ codec.pc = "new"
    /\ encode(codec.frame).panic \/ encode(codec.frame).overflow
    /\ codec' = [codec EXCEPT !.pc = "panicked"]
    /\ UnchangedTask

\* read_frame(bytes) on the bytes encode produced.
Decode ==
    /\ codec.pc = "encoded"
    /\ codec' = [codec EXCEPT !.pc = "decoded", !.result = read_frame(codec.bytes)]
    /\ UnchangedTask

NextCodec ==
    \/ Encode
    \/ EncodePanic
    \/ Decode

SpecCodec == InitCodec /\ [][NextCodec]_vars

\* The packets the SLIP decoder hands to read_frame: a header (command id,
\* sequence id, status, total length), the bytes after it and two checksum
\* bytes, right or wrong, and packets too short for that.  The command ids
\* 99, the status codes 8 and 255 are unknown ones.
ReceivedHeaders ==
    { << h[1], h[2], h[3] >> \o h[4] :
        h \in { DeviceState, Version, 99 } \X { 0, 3 } \X { 0, 7, 8, 255 }
                 \X { <<0, 0>>, <<5, 0>>, <<7, 0>>, <<9, 0>> } }

ReceivedRests == { <<>>, <<0, 0>>, <<5, 0>>, <<2, 0, 1, 1>>, <<14>>, <<1, 2, 3, 4, 5, 6, 7>> }

ShortPackets ==
    { <<>>, <<0>>, <<7>>, <<7, 0>>, <<7, 0, 0>>, <<7, 0, 0, 5>>, <<7, 0, 0, 5, 0>>,
      <<7, 0, 0, 5, 0, 0>> }

\* b followed by its checksum as the device computes it, or by two other
\* bytes.
WithCrc(b) == b \o generate(b).crc
WithWrongCrc(b) ==
    b \o << (generate(b).crc[1] + 1) % 256, generate(b).crc[2] >>

ReceivedPackets ==
    ShortPackets
    \cup { WithCrc(x[1] \o x[2]) : x \in ReceivedHeaders \X ReceivedRests }
    \cup { WithWrongCrc(x[1] \o x[2]) : x \in ReceivedHeaders \X ReceivedRests }

InitIncoming ==
    /\ TaskCreated
    /\ \E bytes \in ReceivedPackets :
          codec = [NoCodec EXCEPT !.pc = "received", !.bytes = bytes]

\* Some(Ok(bytes)) => Some(read_frame(bytes))
NextFrame ==
    /\ codec.pc = "received"
    /\ codec' = [codec EXCEPT !.pc = "decoded", !.result = read_frame(codec.bytes)]
    /\ UnchangedTask

\* DeconzCrc::generate(&bytes) and put_slice(&crc.as_slice()), as encode
\* does with its packet bytes (in a build where the overflow wraps, or with
\* no overflow).
GenerateCrc ==
    /\ codec.pc = "received"
    /\ codec' = [codec EXCEPT !.pc = "generated",
                              !.bytes = codec.bytes \o generate(codec.bytes).crc]
    /\ UnchangedTask

\* DeconzCrc::generate(&bytes) panics: !sum + 1 overflows in a build with
\* overflow checks.
GenerateCrcPanic ==
    /\ codec.pc = "received"
    /\ generate(codec.bytes).overflow
    /\ codec' = [codec EXCEPT !.pc = "panicked"]
    /\ UnchangedTask

NextIncoming ==
    \/ NextFrame
    \/ GenerateCrc
    \/ GenerateCrcPanic

SpecIncoming == InitIncoming /\ [][NextIncoming]_vars

\* Every caller of InitWarm is still awaiting its response and so holds its
\* handle: the handles are not all dropped and recv() never yields None.
SpecWarm == InitWarm /\ [][Running]_vars

\* With the runtime dropping a task whose run has returned or panicked.
SpecLive == Spec /\ WF_vars(DropTask)

\* With the runtime polling the task whenever it can make progress: a
\* pacing step ends (its writes complete or fail), and a select! branch that
\* stays ready is taken.
SpecFair ==
    /\ Spec
    /\ []<>(pc # "try_io")
    /\ WF_vars(ConnectSerial \/ ConnectSerialError)
    /\ WF_vars(ReadFrame)
    /\ WF_vars(ReadFrameError)
    /\ WF_vars(RecvTaskMessage)
    /\ WF_vars(RecvClosed)
    /\ WF_vars(DropTask)

(***************************************************************************)
(* Properties.                                                             *)
(***************************************************************************)
\* C1: in every reachable state the number of in-flight entries, External
\* and Internal together (the scheduler's own device-state, APS-indication
\* and APS-confirm reads included), is at most MAX_IN_FLIGHT_COMMANDS.
C1_InFlightAtMostMax ==
    Cardinality(InFlightKeys(in_flight_commands)) <= MAX_IN_FLIGHT_COMMANDS

\* C2: when the task dispatches a frame whose (command id, sequence id)
\* matches an External in-flight entry, that entry's continuation is invoked
\* in that step, for the first and only time, and that entry is removed in
\* the same step; no other continuation is invoked and no other entry is
\* removed.
C2_ExternalDispatch ==
    [][ ( /\ pc = "select"
          /\ wire # <<>>
          /\ wire' = Tail(wire)
          /\ Head(wire).kind = "frame"
          /\ Head(wire).sequence_id \in DOMAIN in_flight_commands[Head(wire).command_id]
          /\ in_flight_commands[Head(wire).command_id][Head(wire).sequence_id].kind
                = "External" )
        => LET f == Head(wire)
               c == in_flight_commands[f.command_id][f.sequence_id].call
           IN  /\ calls[c].invoked = 0
               /\ calls'[c].invoked = 1
               /\ \A d \in DOMAIN calls \ {c} : calls'[d].invoked = calls[d].invoked
               /\ in_flight_commands' =
                     [in_flight_commands EXCEPT ![f.command_id] = MapRemove(@, f.sequence_id)]
      ]_vars

\* A continuation has been invoked and has delivered its response while the
\* entry of another call is still in flight.
C2_Witness ==
    \E c, d \in DOMAIN calls :
        /\ c # d
        /\ calls[c].invoked = 1
        /\ calls[c].oneshot = "sent"
        /\ calls[d].sequence_id # <<>>
        /\ calls[d].sequence_id[1] \in DOMAIN in_flight_commands[calls[d].command_id]
        /\ in_flight_commands[calls[d].command_id][calls[d].sequence_id[1]] = External(d)

\* C3: the in-flight entries are keyed by (command id, sequence id).  A call
\* whose request was written and that is still waiting has its own entry
\* under its own (command id, sequence id), whatever other command uses the
\* same sequence id; and a call that got a response got the response frame
\* with its own command id and the sequence id its request was written with.
C3_DemuxByCommandAndSequence ==
    \A c \in DOMAIN calls :
        /\ calls[c].response # <<>>
              => /\ calls[c].sequence_id # <<>>
                 /\ calls[c].response = <<calls[c].command_id, calls[c].sequence_id[1]>>
        /\ (calls[c].sequence_id # <<>> /\ calls[c].oneshot = "open")
              => /\ calls[c].sequence_id[1] \in DOMAIN in_flight_commands[calls[c].command_id]
                 /\ in_flight_commands[calls[c].command_id][calls[c].sequence_id[1]]
                       = External(c)

\* Two calls of different commands were written with the same sequence id;
\* the later one has been resolved by its response, out of order, and the
\* earlier one is still in flight.
C3_Witness ==
    \E c, d \in DOMAIN calls :
        /\ c < d
        /\ calls[c].command_id # calls[d].command_id
        /\ calls[c].sequence_id # <<>>
        /\ calls[c].sequence_id = calls[d].sequence_id
        /\ calls[d].oneshot = "sent"
        /\ calls[d].response = <<calls[d].command_id, calls[d].sequence_id[1]>>
        /\ calls[c].oneshot = "open"
        /\ calls[c].sequence_id[1] \in DOMAIN in_flight_commands[calls[c].command_id]

\* C4: once an APS data submission has been written, the status is
\* PendingNextDeviceUpdate, and it stays so (never SlotsAvailable) until the
\* next device-state observation is applied.
C4_PendingAfterApsSubmission ==
    aps_sent_since_update > 0 => aps_data_request_status = "PendingNextDeviceUpdate"

\* An APS data submission was written and the task has since gone round its
\* loop without a device-state observation.
C4_Witness ==
    /\ aps_sent_since_update = 1
    /\ aps_data_request_status = "PendingNextDeviceUpdate"
    /\ pc = "try_io"

\* C5: between two consecutive device-state observations, and before the
\* first, at most one APS data submission is written.
C5_OneApsSubmissionPerObservation ==
    aps_sent_since_update <= 1

\* One APS data submission was written, and a pacing step has left a second
\* one in its queue.
C5_Witness ==
    /\ aps_sent_since_update = 1
    /\ enqueued_aps_data_request_commands # <<>>
    /\ pc = "select"

\* C6: a pacing step writes an APS data submission only from a state with
\* status SlotsAvailable, fewer than MAX_IN_FLIGHT_COMMANDS entries in flight
\* and a last observed network state of Connected; from any other state it
\* leaves the APS queue as it was.
C6_ApsSubmissionGate ==
    [][ (pc = "try_io" /\ pc' # "try_io")
        => LET eligible ==
                 /\ aps_data_request_status = "SlotsAvailable"
                 /\ Cardinality(InFlightKeys(in_flight_commands)) < MAX_IN_FLIGHT_COMMANDS
                 /\ device_state # None
                 /\ device_state[1].network_state = "NetConnected"
           IN  /\ NumApsDataRequests(tx') > 0 => eligible
               /\ ~eligible => enqueued_aps_data_request_commands'
                                  = enqueued_aps_data_request_commands
      ]_vars

\* The last pacing step wrote an APS data submission.
C6_Witness ==
    /\ pc = "select"
    /\ \E i \in DOMAIN tx : tx[i].command_id = ApsDataRequest

\* C7: the dispatch of a device-state observation (an unsolicited
\* DeviceStateChanged, or the response to an in-flight Internal or External
\* request whose layout carries the device-state byte) sets the status to
\* SlotsAvailable if bit 0x20 of the byte is set and to SlotsFull otherwise,
\* and replaces the last device state by the decoded byte; 0x22 gives
\* SlotsAvailable and Connected.
C7_ObservationSetsStatus ==
    [][ ( /\ pc = "select"
          /\ wire # <<>>
          /\ wire' = Tail(wire)
          /\ Head(wire).kind = "frame"
          /\ Head(wire).body # <<>>
          /\ \/ Head(wire).command_id = DeviceStateChanged
             \/ /\ Head(wire).command_id \in CarriesDeviceState
                /\ Head(wire).sequence_id
                      \in DOMAIN in_flight_commands[Head(wire).command_id] )
        => LET b == Head(wire).body[1]
           IN  /\ aps_data_request_status' =
                     IF (b \div 32) % 2 = 1 THEN "SlotsAvailable" ELSE "SlotsFull"
               /\ device_state' = Some(DeviceStateFromU8(b))
               /\ b = 34 => /\ aps_data_request_status' = "SlotsAvailable"
                            /\ device_state'[1].network_state = "NetConnected"
      ]_vars

\* The response to a caller's APS data submission, carrying 0x22, has been
\* dispatched: the status went from PendingNextDeviceUpdate to SlotsAvailable.
C7_Witness ==
    /\ pc = "try_io"
    /\ aps_data_request_status = "SlotsAvailable"
    /\ device_state = Some(DeviceStateFromU8(34))
    /\ tx # <<>>
    /\ tx[Len(tx)].command_id = ApsDataRequest
    /\ \E c \in DOMAIN calls :
          /\ calls[c].command_id = ApsDataRequest
          /\ calls[c].response # <<>>

\* C8: observations are applied one by one in the order their frames are
\* read: whenever a pacing step is about to decide, the last device state is
\* the observation of the frame dispatched last.
C8_ObservationsAppliedInOrder ==
    pc = "try_io" => device_state = last_observation

\* An APS data submission was written, so a Connected state had been
\* observed; a later frame reported Offline, and the pacing step is about to
\* decide on it.
C8_Witness ==
    /\ pc = "try_io"
    /\ last_observation = Some(DeviceStateFromU8(32))
    /\ device_state = last_observation
    /\ \E c \in DOMAIN calls :
          /\ calls[c].command_id = ApsDataRequest
          /\ calls[c].sequence_id # <<>>

\* C9: a write that fails ends the loop for good: from then on the task is
\* never running again, no call gets a response, and once the task is
\* dropped every call made so far and every later call has failed with
\* TaskFailure unless it had its response before.
C9_WriteFailureIsFatal ==
    [][ write_error'
        => /\ pc' \in { "exiting", "dead" }
           /\ \A c \in DOMAIN calls' :
                 /\ Outcome(calls'[c]) = "Ok"
                       => (c \in DOMAIN calls /\ Outcome(calls[c]) = "Ok")
                 /\ pc' = "dead" => Outcome(calls'[c]) # "waiting"
      ]_vars

\* After a failed write, a call that was pending and a call made after the
\* task was dropped have both returned TaskFailure.
C9_Witness ==
    /\ write_error
    /\ pc = "dead"
    /\ \E c, d \in DOMAIN calls :
          /\ calls[c].kind = "CommandRequest"
          /\ calls[c].accepted
          /\ Outcome(calls[c]) = "TaskFailure"
          /\ calls[d].kind = "CommandRequest"
          /\ ~calls[d].accepted
          /\ Outcome(calls[d]) = "TaskFailure"

\* C10: once run has returned or panicked, every call that is still waiting
\* (its request in the inbox, in a queue or in flight, or a subscribe in the
\* inbox) eventually returns TaskFailure.
C10_NoCallerWaitsForever ==
    \A c \in 1 .. MaxCalls :
        (pc \in { "exiting", "dead" } /\ c \in DOMAIN calls
            /\ Outcome(calls[c]) = "waiting")
        ~> (c \in DOMAIN calls /\ Outcome(calls[c]) = "TaskFailure")

\* The task is gone, and a subscribe and a send_command that it had accepted
\* have both returned TaskFailure.
C10_Witness ==
    /\ pc = "dead"
    /\ \E c, d \in DOMAIN calls :
          /\ calls[c].kind = "SubscribeRequest"
          /\ calls[c].accepted
          /\ Outcome(calls[c]) = "TaskFailure"
          /\ calls[d].kind = "CommandRequest"
          /\ calls[d].accepted
          /\ Outcome(calls[d]) = "TaskFailure"

\* C11: a read or frame-decode error on the incoming stream never ends the
\* task's loop, and it leaves the in-flight map, both queues,
\* next_sequence_id, the last device state and the APS status as they were.
C11_ReadErrorNotFatal ==
    [][ ( /\ pc = "select"
          /\ wire # <<>>
          /\ Head(wire).kind = "error"
          /\ wire' = Tail(wire) )
        => /\ pc' \notin { "exiting", "dead" }
           /\ UnchangedQueue
      ]_vars

\* C12: after a frame decode error the loop goes on reading: a valid frame
\* that is on the wire afterwards is eventually dispatched, whether or not a
\* message arrives in the inbox in between.
C12_FramesDispatchedAfterReadError ==
    \A n \in 1 .. MaxWire :
        ( /\ pc = "select"
          /\ "frame" \in disabled
          /\ Len(wire) = n
          /\ Head(wire).kind = "frame" )
        ~> (Len(wire) < n /\ pc # "dead")

\* C13: the dispatch of a frame, other than the three unsolicited command
\* ids, whose (command id, sequence id) has no in-flight entry does not end
\* the task's loop, and leaves the in-flight map, both queues, the last
\* device state and the APS status as they were; no caller is resolved.
C13_UnmatchedFrameDropped ==
    [][ ( /\ pc = "select"
          /\ wire # <<>>
          /\ wire' = Tail(wire)
          /\ Head(wire).kind = "frame"
          /\ Head(wire).command_id
                \notin { DeviceStateChanged, MacBeaconIndication, MacPollIndication }
          /\ Head(wire).sequence_id
                \notin DOMAIN in_flight_commands[Head(wire).command_id] )
        => /\ pc' = "try_io"
           /\ UNCHANGED << in_flight_commands, enqueued_commands,
                           enqueued_aps_data_request_commands, device_state,
                           aps_data_request_status, calls >>
      ]_vars

\* A frame without an in-flight entry has just been dispatched while other
\* requests were in flight.
C13_Witness ==
    /\ pc = "try_io"
    /\ last_dispatch = "unmatched"
    /\ device_state # None
    /\ InFlightKeys(in_flight_commands) # {}

\* C14: when a caller has dropped its pending receiver, its in-flight entry
\* stays in the map until a frame with its (command id, sequence id) is
\* dispatched (or the task is torn down); the dispatch of that frame, when it
\* parses, removes the entry, discards the response without an error,
\* applies the device state the response carries, and the task goes on.
C14_DroppedReceiver ==
    [][ \A c \in DOMAIN calls :
          ( /\ calls[c].oneshot = "rx_dropped"
            /\ calls[c].sequence_id # <<>>
            /\ calls[c].sequence_id[1] \in DOMAIN in_flight_commands[calls[c].command_id]
            /\ in_flight_commands[calls[c].command_id][calls[c].sequence_id[1]]
                  = External(c) )
          => LET command_id == calls[c].command_id
                 sequence_id == calls[c].sequence_id[1]
             IN  IF /\ pc = "select"
                    /\ wire # <<>>
                    /\ wire' = Tail(wire)
                    /\ Head(wire).kind = "frame"
                    /\ Head(wire).command_id = command_id
                    /\ Head(wire).sequence_id = sequence_id
                 THEN Head(wire).body # <<>>
                      => /\ sequence_id \notin DOMAIN in_flight_commands'[command_id]
                         /\ calls'[c].invoked = 1
                         /\ calls'[c].oneshot = "rx_dropped"
                         /\ pc' = "try_io"
                         /\ command_id \in CarriesDeviceState
                               => device_state' = Some(DeviceStateFromU8(Head(wire).body[1]))
                 ELSE pc' # "dead"
                      => /\ sequence_id \in DOMAIN in_flight_commands'[command_id]
                         /\ in_flight_commands'[command_id][sequence_id] = External(c)
      ]_vars

\* The response to a call whose receiver was dropped has been dispatched and
\* discarded, and the task goes on.
C14_Witness ==
    /\ pc = "try_io"
    /\ last_dispatch = "external"
    /\ \E c \in DOMAIN calls :
          /\ calls[c].oneshot = "rx_dropped"
          /\ calls[c].invoked = 1

\* C15: ApsDataRequest commands wait in the APS queue and every other
\* command in the general queue; within each queue the commands of
\* send_command calls are written in the order of the calls: a call is
\* written only after every earlier call of its queue, and the calls still
\* waiting in a queue are in call order.
C15_FifoWithinQueue ==
    /\ \A i \in DOMAIN enqueued_aps_data_request_commands :
          enqueued_aps_data_request_commands[i].command_id = ApsDataRequest
    /\ \A i \in DOMAIN enqueued_commands :
          enqueued_commands[i].command_id # ApsDataRequest
    /\ \A c, d \in DOMAIN calls :
          ( /\ c < d
            /\ calls[c].kind = "CommandRequest"
            /\ calls[d].kind = "CommandRequest"
            /\ (calls[c].command_id = ApsDataRequest)
                  <=> (calls[d].command_id = ApsDataRequest)
            /\ calls[d].sequence_id # <<>> )
          => /\ calls[c].sequence_id # <<>>
             /\ calls[c].sequence_id[1] < calls[d].sequence_id[1]
    /\ \A queue \in { enqueued_commands, enqueued_aps_data_request_commands } :
          \A i, j \in DOMAIN queue :
              i < j => queue[i].in_flight_command.call < queue[j].in_flight_command.call

\* Two calls that waited in the general queue together were written by one
\* pacing step, the earlier call first.
C15_Witness ==
    \E i, j \in DOMAIN tx :
        /\ i < j
        /\ tx[i].origin.kind = "External"
        /\ tx[j].origin.kind = "External"
        /\ tx[i].origin.call < tx[j].origin.call

\* C16: sequence ids are allocated when a frame is written: the k-th frame
\* written, internal reads and callers' commands of both queues counted
\* alike, carries sequence id (k - 1) mod 256.
C16_SequenceIdsInWriteOrder ==
    [][ (pc = "try_io" /\ pc' # "try_io")
        => /\ num_written' = num_written + Len(tx')
           /\ \A i \in DOMAIN tx' : tx'[i].sequence_id = (num_written + i - 1) % 256
      ]_vars

\* A pacing step has written a caller's command as the 259th frame or later,
\* after the sequence id has wrapped.
C16_Witness ==
    /\ num_written > 258
    /\ \E i \in DOMAIN tx : tx[i].origin.kind = "External"

\* C17: an in-flight entry is destroyed only by the arrival of a frame with
\* its command id and sequence id, or by the teardown of the task: no later
\* send removes or replaces an entry that is still pending.
C17_EntryOutlivesLaterSends ==
    [][ \A command_id \in CommandIds :
          \A sequence_id \in DOMAIN in_flight_commands[command_id] :
             \/ /\ sequence_id \in DOMAIN in_flight_commands'[command_id]
                /\ in_flight_commands'[command_id][sequence_id]
                      = in_flight_commands[command_id][sequence_id]
             \/ pc' = "dead"
             \/ /\ pc = "select"
                /\ wire # <<>>
                /\ wire' = Tail(wire)
                /\ Head(wire).kind = "frame"
                /\ Head(wire).command_id = command_id
                /\ Head(wire).sequence_id = sequence_id
      ]_vars

\* C19: every subscription gets a receiver of its own that starts at the
\* tail: what it has yielded so far are the indications published after the
\* task handled its subscription message, in the order of publication and
\* from the first of them on (no overflow happens below the capacity), and
\* a receiver that has caught up has yielded all of them.
C19_SubscriberStartsAtTail ==
    \A call \in DOMAIN broadcast_channels.receivers :
        LET r == broadcast_channels.receivers[call]
        IN  /\ calls[call].kind = "SubscribeRequest"
            /\ \A i \in DOMAIN r.yielded : r.yielded[i] = r.handled_at + i
            /\ Len(r.yielded) <= broadcast_channels.published - r.handled_at
            /\ r.next = broadcast_channels.pos
                  => Len(r.yielded) = broadcast_channels.published - r.handled_at

\* Two subscribers: the first subscribed before anything was published and
\* has yielded both indications, the second subscribed between them and has
\* yielded the second only.
C19_Witness ==
    \E c, d \in DOMAIN broadcast_channels.receivers :
        /\ broadcast_channels.receivers[c].handled_at = 0
        /\ broadcast_channels.receivers[c].yielded = <<1, 2>>
        /\ broadcast_channels.receivers[d].handled_at = 1
        /\ broadcast_channels.receivers[d].yielded = <<2>>

\* The values a receiver will still yield if nothing more is published.
Readable(b, r) ==
    { b.buffer[i] :
        i \in ((IF r.next < OldestPos(b) THEN OldestPos(b) ELSE r.next) - OldestPos(b) + 1)
                 .. Len(b.buffer) }

C20_EncodeDecodeRoundTrip ==
    /\ codec.pc # "panicked"
    /\ codec.pc \in { "encoded", "decoded" }
          => LET n == Len(codec.bytes)
             IN  ( wrapping_sum(codec.bytes, 1, n - 2)
                     + codec.bytes[n - 1] + 256 * codec.bytes[n] ) % 65536 = 0
    /\ codec.pc = "decoded"
          => /\ codec.result.ok
             /\ codec.result.frame.command_id = codec.frame.command_id
             /\ codec.result.frame.sequence_number = codec.frame.sequence_number
             /\ codec.result.frame.status = Some(0)
             /\ codec.result.frame.inner
                   = (IF codec.frame.inner = None THEN <<>> ELSE codec.frame.inner[1])

\* A frame with a body has been encoded and decoded.
C20_Witness ==
    /\ codec.pc = "decoded"
    /\ codec.frame.inner # None
    /\ codec.result.ok

\* C21: checksum generation is defined for every byte sequence, those whose
\* bytes sum to 0 modulo 2^16 included, and gives (-sum) mod 2^16 as two
\* bytes, the low byte first.
C21_ChecksumDefined ==
    /\ codec.pc # "panicked"
    /\ codec.pc = "generated"
          => LET n == Len(codec.bytes)
                 negated == (65536 - wrapping_sum(codec.bytes, 1, n - 2)) % 65536
             IN  /\ codec.bytes[n - 1] = negated % 256
                 /\ codec.bytes[n] = negated \div 256

\* A checksum was generated for bytes whose sum is not 0.
C21_Witness ==
    /\ codec.pc = "generated"
    /\ wrapping_sum(codec.bytes, 1, Len(codec.bytes) - 2) # 0

\* C22: encoding a Version request with sequence id 0 gives exactly the
\* bytes 0D 00 00 07 00 02 00 00 00 EA FF.
C22_VersionRequestBytes ==
    (codec.pc \in { "encoded", "decoded" } /\ codec.frame = as_frame(Version, 0))
       => codec.bytes = << 13, 0, 0, 7, 0, 2, 0, 0, 0, 234, 255 >>

\* A Version request with sequence id 0 has been encoded.
C22_Witness ==
    /\ codec.pc = "encoded"
    /\ codec.frame = as_frame(Version, 0)

\* The packet without its last two bytes, which read_frame splits off.
Payload(bytes) == SubSeq(bytes, 1, Len(bytes) - 2)

\* C23: an incoming packet whose last two bytes differ from the checksum
\* recomputed over the bytes before them is rejected with a protocol error
\* of its own and never comes out of the decoder as a frame.  Stated for
\* the packets with nothing else wrong, where no other error can hide it.
C23_WrongChecksumRejected ==
    ( /\ codec.pc = "decoded"
      /\ Len(codec.bytes) >= 2
      /\ SubSeq(codec.bytes, Len(codec.bytes) - 1, Len(codec.bytes))
            # generate(Payload(codec.bytes)).crc
      /\ parse_incoming(Payload(codec.bytes)).ok )
       => /\ ~codec.result.ok
          /\ codec.result.error
                \notin { "Read", "SmallFrame", "LargeFrame", "UnknownCommandId",
                         "UnknownStatusCode" }

\* C24: decode rejects a packet with fewer than 5 header bytes as too small
\* and one that carries more bytes than its total length allows as too
\* large, so that every accepted frame has a total length of at least 5 and
\* at most total length - 5 bytes after the header.
C24_AcceptedFrameLengths ==
    (codec.pc = "decoded" /\ Len(codec.bytes) >= 2)
       => LET payload == Payload(codec.bytes)
              total_length == payload[4] + 256 * payload[5]
          IN  /\ Len(payload) < 5 => codec.result.error = "SmallFrame"
              /\ (Len(payload) >= 5 /\ Len(payload) - 5 > total_length)
                    => ~codec.result.ok
              /\ codec.result.ok
                    => /\ total_length >= 5
                       /\ Len(codec.result.frame.inner) <= total_length - 5

\* C25: in every byte sequence accepted as a frame that carries a body, the
\* payload length embedded after the header and the total length of the
\* header satisfy payload length + 7 = total length.
C25_PayloadLengthMatchesTotal ==
    (codec.pc = "decoded" /\ codec.result.ok /\ codec.result.frame.inner # <<>>)
       => LET payload == Payload(codec.bytes)
              total_length == payload[4] + 256 * payload[5]
              inner == codec.result.frame.inner
          IN  /\ Len(inner) >= 2
              /\ inner[1] + 256 * inner[2] + 7 = total_length

\* C27: decoding a frame whose command id is known and whose status byte is
\* not one of 0x00 .. 0x07 fails with the UnknownStatusCode error, which is
\* not the UnknownCommandId error of an unknown command id.
C27_UnknownStatusCode ==
    ( /\ codec.pc = "decoded"
      /\ Len(codec.bytes) >= 7
      /\ codec.bytes[1] \in CommandTypes
      /\ codec.bytes[3] \notin 0 .. 7 )
       => /\ ~codec.result.ok
          /\ codec.result.error = "UnknownStatusCode"

\* C26: the total length field of an encoded frame holds 5 when the command
\* has no body and 7 + the body's length when it has one, whatever the
\* length of a body that packet_bytes takes; a body that is empty is not an
\* absent one: it is written as the 2-byte length 0 under a total length 7.
C26_TotalLengthField ==
    codec.pc = "encoded"
       => LET total_length == codec.bytes[4] + 256 * codec.bytes[5]
          IN  /\ codec.frame.inner = None => total_length = 5
              /\ codec.frame.inner # None
                    => total_length = 7 + Len(codec.frame.inner[1])
              /\ codec.frame.inner = Some(<<>>)
                    => /\ total_length = 7
                       /\ SubSeq(codec.bytes, 6, 7) = <<0, 0>>

\* A body of more than U16Mod - 8 bytes has been encoded.
C26_Witness ==
    /\ codec.pc = "encoded"
    /\ codec.frame.inner # None
    /\ Len(codec.frame.inner[1]) > U16Mod - 8
(***************************************************************************)
(* The network parameters.  A parameter is [type, value]: type is the name *)
(* of the struct or enum that implements Parameter, value a number for the *)
(* integer newtypes, the variant's name for the enums, [set, key] for      *)
(* NetworkKey and [secs, nanos] for WatchdogTtl's Duration.                *)
(***************************************************************************)
\* put_u8 .. put_u64_le: the size low bytes of n, least significant first.
RECURSIVE put_uint_le(_, _)
put_uint_le(n, size) ==
    IF size = 0 THEN <<>> ELSE << n % 256 >> \o put_uint_le(n \div 256, size - 1)

\* get_u8 .. get_u64_le on the first size bytes of frame.
RECURSIVE get_uint_le(_, _)
get_uint_le(frame, size) ==
    IF size = 0 THEN 0 ELSE frame[1] + 256 * get_uint_le(Tail(frame), size - 1)

\* The width in bytes of the integer newtypes.
ParameterSize ==
    [ MacAddress |-> 8, NetworkPanId |-> 2, NetworkAddress |-> 2,
      NetworkExtendedPanId |-> 8, ChannelMask |-> 4, APSExtendedPanId |-> 8,
      TrustCenterAddress |-> 8, CurrentChannel |-> 1, ProtocolVersion |-> 2,
      NetworkUpdateId |-> 1, NetworkFrameCounter |-> 4, PermitJoin |-> 1 ]

\* The discriminants of the enums.
ParameterVariants ==
    [ APSDesignatedCoordinator |-> [ Coordinator |-> 1, Router |-> 0 ],
      SecurityMode |-> [ NoSecurity |-> 0, PreconfiguredNetworkKey |-> 1,
                         NetworkKeyFromTrustCenter |-> 2,
                         NoMasterButTrustCenterLinkKey |-> 3 ],
      PredefinedNetworkPanId |-> [ NotPredefined |-> 0, Predefined |-> 1 ] ]

\* Parameter::write_frame: the bytes it appends to the payload.  The enums
\* write (self as *const T) as u8, the low byte of the address of the value
\* and not its discriminant: address is that byte.
Parameter_write_frame(parameter, address) ==
    CASE parameter.type \in DOMAIN ParameterSize ->
            put_uint_le(parameter.value, ParameterSize[parameter.type])
      [] parameter.type \in DOMAIN ParameterVariants -> << address >>
      [] parameter.type = "NetworkKey" ->
            IF parameter.value.set THEN parameter.value.key ELSE [i \in 1 .. 16 |-> 0]
      [] parameter.type = "WatchdogTtl" ->
            \* self.0.as_secs() as u32: the low four bytes of the u64
            SubSeq(put_uint_le(parameter.value.secs, 8), 1, 4)

\* Parameter::from_frame of the type on a frame holding these bytes: the
\* Buf getters panic when the frame is too short, the enums on a byte that
\* is no discriminant.
Parameter_from_frame(type, frame) ==
    CASE type \in DOMAIN ParameterSize ->
            IF Len(frame) < ParameterSize[type]
            THEN [ panic |-> TRUE, value |-> None ]
            ELSE [ panic |-> FALSE,
                   value |-> [ type |-> type,
                               value |-> get_uint_le(frame, ParameterSize[type]) ] ]
      [] type \in DOMAIN ParameterVariants ->
            IF \/ Len(frame) < 1
               \/ \A v \in DOMAIN ParameterVariants[type] :
                     ParameterVariants[type][v] # frame[1]
            THEN [ panic |-> TRUE, value |-> None ]
            ELSE [ panic |-> FALSE,
                   value |-> [ type |-> type,
                               value |-> CHOOSE v \in DOMAIN ParameterVariants[type] :
                                            ParameterVariants[type][v] = frame[1] ] ]
      [] type = "NetworkKey" ->
            IF frame = <<>>
            THEN [ panic |-> FALSE,
                   value |-> [ type |-> type, value |-> [ set |-> FALSE, key |-> <<>> ] ] ]
            ELSE IF Len(frame) < 16
            THEN [ panic |-> TRUE, value |-> None ]
            ELSE [ panic |-> FALSE,
                   value |-> [ type |-> type,
                               value |-> [ set |-> TRUE, key |-> SubSeq(frame, 1, 16) ] ] ]
      [] type = "WatchdogTtl" ->
            IF frame = <<>>
            THEN [ panic |-> FALSE,
                   value |-> [ type |-> type, value |-> [ secs |-> 0, nanos |-> 0 ] ] ]
            ELSE IF Len(frame) < 4
            THEN [ panic |-> TRUE, value |-> None ]
            ELSE [ panic |-> FALSE,
                   value |-> [ type |-> type,
                               value |-> [ secs |-> get_uint_le(frame, 4), nanos |-> 0 ] ] ]

\* The values of the integer newtypes a run starts from, those that fit the
\* type's width.
ParameterInts == { 0, 1, 255, 256, 4660, 65535, 65536, 16909060 }
Fits(n, size) == put_uint_le(n, size) = put_uint_le(n, 8)

\* The low bytes an enum value's address can have.
AddressBytes == 0 .. (U8Mod - 1)

\* The parameters a run starts from, by the kind of their value.
IntegerParameters ==
    { [ type |-> x[1], value |-> x[2] ] :
        x \in { y \in (DOMAIN ParameterSize) \X ParameterInts :
                   Fits(y[2], ParameterSize[y[1]]) } }
EnumParameters ==
    UNION { { [ type |-> t, value |-> v ] : v \in DOMAIN ParameterVariants[t] } :
              t \in DOMAIN ParameterVariants }
NetworkKeys ==
    { [ type |-> "NetworkKey", value |-> k ] :
        k \in { [ set |-> FALSE, key |-> <<>> ],
                [ set |-> TRUE, key |-> [i \in 1 .. 16 |-> 0] ],
                [ set |-> TRUE, key |-> [i \in 1 .. 16 |-> i] ] } }
WatchdogTtls ==
    { [ type |-> "WatchdogTtl", value |-> d ] :
        d \in [ secs : { 0, 1, 3600 }, nanos : { 0, 500000000 } ] }

NewParameter(parameter) ==
    codec = [NoCodec EXCEPT !.pc = "parameter", !.value = parameter]

InitParameter ==
    /\ TaskCreated
    /\ \/ \E parameter \in IntegerParameters : NewParameter(parameter)
       \/ \E parameter \in EnumParameters : NewParameter(parameter)
       \/ \E parameter \in NetworkKeys : NewParameter(parameter)
       \/ \E parameter \in WatchdogTtls : NewParameter(parameter)

\* WriteParameterRequest::payload_data: T::write_frame(&self.value, &mut payload)
WriteFrame ==
    /\ codec.pc = "parameter"
    /\ \E address \in AddressBytes :
          codec' = [codec EXCEPT !.pc = "written",
                                 !.bytes = Parameter_write_frame(codec.value, address)]
    /\ UnchangedTask

\* T::from_frame on a frame holding the bytes written.
FromFrame ==
    /\ codec.pc = "written"
    /\ ~Parameter_from_frame(codec.value.type, codec.bytes).panic
    /\ codec' = [codec EXCEPT
                   !.pc = "parsed",
                   !.parsed = Parameter_from_frame(codec.value.type, codec.bytes).value]
    /\ UnchangedTask

FromFramePanic ==
    /\ codec.pc = "written"
    /\ Parameter_from_frame(codec.value.type, codec.bytes).panic
    /\ codec' = [codec EXCEPT !.pc = "parse_panicked"]
    /\ UnchangedTask

NextParameter ==
    \/ WriteFrame
    \/ FromFrame
    \/ FromFramePanic

SpecParameter == InitParameter /\ [][NextParameter]_vars

\* C28: for every parameter x, of every type, T::from_frame on the bytes that
\* write_frame(x) wrote returns, and returns x.
C28_ParameterRoundTrip ==
    codec.pc \in { "parsed", "parse_panicked" }
       => /\ codec.pc = "parsed"
          /\ codec.parsed = codec.value

\* NetworkKey::Unset has been written and parsed.
C28_Witness ==
    /\ codec.pc = "parsed"
    /\ codec.value.type = "NetworkKey"
    /\ ~codec.value.value.set
\* C29: while no device state has been received, a pacing step writes one
\* internal DeviceState read when none is in flight (or fails writing it) and
\* nothing when one is, and leaves both queues as they were; so until the
\* first device state every frame written is an internal DeviceState read
\* (tx holds the frames of the last pacing step).
C29_DeviceStateFirst ==
    /\ [](device_state = None
             => \A i \in DOMAIN tx :
                   tx[i].command_id = DeviceState /\ tx[i].origin = Internal)
    /\ [][ (pc = "try_io" /\ pc' # "try_io" /\ device_state = None)
           => /\ UNCHANGED << enqueued_commands, enqueued_aps_data_request_commands >>
              /\ IF DOMAIN in_flight_commands[DeviceState] # {}
                 THEN tx' = <<>> /\ write_error' = write_error
                 ELSE \/ /\ tx' = << [ command_id |-> DeviceState,
                                       sequence_id |-> next_sequence_id,
                                       payload |-> payload_data(DeviceState),
                                       origin |-> Internal ] >>
                         /\ write_error' = write_error
                      \/ tx' = <<>> /\ write_error' ]_vars

\* A pacing step has run with a DeviceState read in flight, no device state
\* and commands waiting in both queues.
C29_Witness ==
    /\ pc = "select"
    /\ device_state = None
    /\ DOMAIN in_flight_commands[DeviceState] # {}
    /\ enqueued_commands # <<>>
    /\ enqueued_aps_data_request_commands # <<>>
    /\ tx = <<>>
    /\ num_written = 1
\* The frames of the last pacing step that read a data indication.
IndicationReads(frames) ==
    { i \in DOMAIN frames : frames[i].command_id = ApsDataIndication }

\* The pacing step writes exactly one ApsDataIndication frame, of body
\* [0x04], or fails writing it, which is the first write of the step.
OneIndicationRead ==
    \/ /\ Cardinality(IndicationReads(tx')) = 1
       /\ \A i \in IndicationReads(tx') : tx'[i].payload = Some(<<4>>)
    \/ tx' = <<>> /\ write_error'

ConfirmReads(frames) ==
    { i \in DOMAIN frames : frames[i].command_id = ApsDataConfirm }

\* C31: when the last device state says Connected and confirm pending, a
\* pacing step writes exactly one internal ApsDataConfirm read, with a body
\* that is present and empty, if no ApsDataConfirm entry is in flight (or a
\* write of the step fails before it is written), and none if one is.
C31_ConfirmRead ==
    [][ ( /\ pc = "try_io" /\ pc' # "try_io"
          /\ device_state # None
          /\ IsConnected(device_state[1].network_state)
          /\ device_state[1].apsde_data_confirm )
        => IF DOMAIN in_flight_commands[ApsDataConfirm] = {}
           THEN \/ /\ Cardinality(ConfirmReads(tx')) = 1
                   /\ \A i \in ConfirmReads(tx') :
                         /\ tx'[i].payload = Some(<<>>)
                         /\ tx'[i].origin = Internal
                \/ ConfirmReads(tx') = {} /\ write_error'
           ELSE ConfirmReads(tx') = {} ]_vars

\* A pacing step has just written a data-confirm read.
C31_Witness ==
    /\ pc = "select"
    /\ device_state # None
    /\ ConfirmReads(tx) # {}
\* The frames of a pacing step that came from the general queue: those of a
\* caller's command other than an APS data request, in the order written.
IsGeneralFrame(frame) ==
    frame.origin.kind = "External" /\ frame.command_id # ApsDataRequest
GeneralFrames(frames) == SelectSeq(frames, IsGeneralFrame)

\* C32: once a device state is known, a pacing step whose writes succeed
\* sends the commands at the front of the general queue, in queue order, and
\* leaves the rest queued; when it ends the general queue is empty or
\* MAX_IN_FLIGHT_COMMANDS commands are in flight, and it has sent a general
\* command only while fewer were; the network state plays no part.
C32_GeneralQueueDrained ==
    [][ ( /\ pc = "try_io" /\ pc' # "try_io"
          /\ device_state # None
          /\ ~write_error' )
        => LET sent == GeneralFrames(tx')
               k == Len(sent)
           IN  /\ k <= Len(enqueued_commands)
               /\ \A i \in 1 .. k :
                     /\ sent[i].origin = enqueued_commands[i].in_flight_command
                     /\ sent[i].command_id = enqueued_commands[i].command_id
               /\ enqueued_commands' = SubSeq(enqueued_commands, k + 1,
                                              Len(enqueued_commands))
               /\ \/ enqueued_commands' = <<>>
                  \/ Cardinality(InFlightKeys(in_flight_commands'))
                        >= MAX_IN_FLIGHT_COMMANDS
               /\ k > 0 => Cardinality(InFlightKeys(in_flight_commands'))
                              <= MAX_IN_FLIGHT_COMMANDS ]_vars

\* After a pacing step has sent a general command and filled the in-flight
\* window, another pacing step has left a general command queued.
C32_Witness ==
    /\ pc = "select"
    /\ device_state # None
    /\ num_written > 257
    /\ tx = <<>>
    /\ enqueued_commands # <<>>
    /\ Cardinality(InFlightKeys(in_flight_commands)) >= MAX_IN_FLIGHT_COMMANDS
\* The frame at the head of the wire is being dispatched and matches an
\* in-flight entry of this kind.
DispatchesMatched(kind) ==
    /\ pc = "select"
    /\ wire # <<>>
    /\ wire' = Tail(wire)
    /\ Head(wire).kind = "frame"
    /\ Head(wire).command_id
          \notin { DeviceStateChanged, MacBeaconIndication, MacPollIndication }
    /\ Head(wire).sequence_id \in DOMAIN in_flight_commands[Head(wire).command_id]
    /\ in_flight_commands[Head(wire).command_id][Head(wire).sequence_id].kind = kind

\* The device state of the frame being dispatched has been applied.
DeviceStateApplied ==
    /\ Head(wire).body # <<>>
    /\ device_state' = Some(DeviceStateFromU8(Head(wire).body[1]))

\* C33: the dispatch of a response that matches an Internal entry goes by
\* its command id: an ApsDataIndication response is published to the
\* broadcast channel once, as the next value, and its device state is
\* applied; an ApsDataConfirm or a DeviceState response has its device state
\* applied and is not published.  The dispatch of a response that matches an
\* External entry publishes nothing.
C33_InternalResponseByCommandId ==
    [][ /\ DispatchesMatched("Internal")
           => /\ pc' = "try_io"
              /\ DeviceStateApplied
              /\ UNCHANGED << enqueued_commands, enqueued_aps_data_request_commands,
                              calls >>
              /\ broadcast_channels'.published
                    = IF Head(wire).command_id = ApsDataIndication
                      THEN broadcast_channels.published + 1
                      ELSE broadcast_channels.published
              /\ broadcast_channels'.published # broadcast_channels.published
                    => broadcast_channels' =
                          broadcast_aps_data_indication(broadcast_channels)
        /\ DispatchesMatched("External")
           => broadcast_channels' = broadcast_channels ]_vars

\* An ApsDataIndication response has been published to a subscriber.
C33_Witness ==
    /\ pc = "try_io"
    /\ last_dispatch = "internal"
    /\ broadcast_channels.published > 0
    /\ broadcast_channels.buffer # <<>>
\* C34: the dispatch of a MacBeaconIndication or MacPollIndication frame
\* leaves the in-flight map as it was, whatever entries share the frame's
\* sequence id, and with it the last device state, the APS status, both
\* queues and every caller's one-shot.
C34_MacIndicationsUnsolicited ==
    [][ ( /\ pc = "select"
          /\ wire # <<>>
          /\ wire' = Tail(wire)
          /\ Head(wire).kind = "frame"
          /\ Head(wire).command_id \in { MacBeaconIndication, MacPollIndication } )
        => UNCHANGED << in_flight_commands, device_state, aps_data_request_status,
                        enqueued_commands, enqueued_aps_data_request_commands,
                        calls, broadcast_channels >> ]_vars

\* A MAC indication has been dispatched while a request with the frame's
\* sequence id was in flight.
C34_Witness ==
    /\ pc = "try_io"
    /\ last_dispatch = "unsolicited"
    /\ device_state = None
    /\ \E c \in CommandIds : 0 \in DOMAIN in_flight_commands[c]
(***************************************************************************)
(* An idle scheduler and a device that answers.  The first device-state    *)
(* read was answered with 0x02: Connected, nothing to read, no free slot.  *)
(* From here on the device has free slots: it answers every request in     *)
(* flight, with the device state 0x22 where the response carries one, and  *)
(* sends nothing unsolicited.                                              *)
(***************************************************************************)
ConnectedNoFreeSlots == DeviceStateFromU8(2)

InitIdle ==
    /\ pc = "try_io"
    /\ disabled = {}
    /\ next_sequence_id = 1
    /\ device_state = Some(ConnectedNoFreeSlots)
    /\ aps_data_request_status = "SlotsFull"
    /\ enqueued_commands = <<>>
    /\ enqueued_aps_data_request_commands = <<>>
    /\ in_flight_commands = [c \in CommandIds |-> EmptyMap]
    /\ inbox = <<>>
    /\ handles_alive = TRUE
    /\ wire = <<>>
    /\ frames_left = MaxFrames
    /\ calls_left = MaxCalls
    /\ calls = <<>>
    /\ tx = << [command_id |-> DeviceState, sequence_id |-> 0,
                payload |-> payload_data(DeviceState), origin |-> Internal] >>
    /\ aps_sent_since_update = 0
    /\ last_observation = Some(ConnectedNoFreeSlots)
    /\ write_error = FALSE
    /\ last_dispatch = "internal"
    /\ num_written = 1
    /\ broadcast_channels = new_broadcast_channels
    /\ codec = NoCodec

\* The device answers a request that is in flight.
DeviceAnswer ==
    /\ pc = "select"
    /\ wire = <<>>
    /\ \E key \in InFlightKeys(in_flight_commands) :
          wire' = << Frame(key[1], key[2], <<34>>) >>
    /\ UNCHANGED << pc, disabled, inbox, handles_alive, frames_left, calls_left, calls,
                    tx, aps_sent_since_update, last_observation, write_error,
                    last_dispatch, num_written, codec >>
    /\ UnchangedQueue

NextIdle ==
    \/ TryIo
    \/ ReadFrame
    \/ RecvTaskMessage
    \/ SendCommand
    \/ DeviceAnswer

\* The runtime polls the task whenever it can make progress and the device
\* answers every request.
SpecIdle ==
    /\ InitIdle
    /\ [][NextIdle]_vars
    /\ []<>(pc # "try_io")
    /\ WF_vars(ReadFrame)
    /\ WF_vars(RecvTaskMessage)
    /\ WF_vars(DeviceAnswer)

\* C35: an APS data request that waits in its queue while the status is
\* SlotsFull or PendingNextDeviceUpdate is eventually transmitted, the device
\* being Connected with free slots and answering every request: the
\* scheduler gets itself the device state it needs.
C35_IdleDeviceStateRead ==
    \A n \in 1 .. MaxCalls :
        ( /\ Len(enqueued_aps_data_request_commands) = n
          /\ aps_data_request_status \in { "SlotsFull", "PendingNextDeviceUpdate" } )
        ~> (Len(enqueued_aps_data_request_commands) < n)

\* A pacing step has left an APS data request queued, with the status
\* SlotsFull and no request in flight.
C35_Witness ==
    /\ pc = "select"
    /\ enqueued_aps_data_request_commands # <<>>
    /\ aps_data_request_status = "SlotsFull"
    /\ InFlightKeys(in_flight_commands) = {}
    /\ inbox = <<>>
    /\ wire = <<>>
\* C36: a pacing step writes a frame only under a (command id, sequence id)
\* that has no in-flight entry when the step begins, also once the sequence
\* id has wrapped; so the insert of send_command replaces no entry, and no
\* caller's continuation is dropped by a send.
C36_SendsUnderFreshKey ==
    [][ (pc = "try_io" /\ pc' # "try_io")
        => /\ \A i \in DOMAIN tx' :
                 tx'[i].sequence_id \notin DOMAIN in_flight_commands[tx'[i].command_id]
           /\ \A c \in DOMAIN calls :
                 calls[c].oneshot = "open" => calls'[c].oneshot = "open" ]_vars

\* A pacing step has written a caller's frame after the sequence id wrapped,
\* while requests written before the wrap were in flight.
C36_Witness ==
    /\ pc = "select"
    /\ num_written > U8Mod + 1
    /\ \E i \in DOMAIN tx : tx[i].origin.kind = "External"
    /\ \E s \in WarmPending : s \in DOMAIN in_flight_commands[Version]
\* C37: the APS status agrees with the last device state: SlotsAvailable
\* only with a device state whose free-slots flag is set, SlotsFull only
\* with one whose flag is clear, and PendingNextDeviceUpdate as long as there
\* is no device state; a device state, once there, never goes away.
C37_StatusAgreesWithDeviceState ==
    /\ []( /\ aps_data_request_status = "SlotsAvailable"
              => /\ device_state # None
                 /\ device_state[1].apsde_data_request_free_slots
           /\ aps_data_request_status = "SlotsFull"
              => /\ device_state # None
                 /\ ~device_state[1].apsde_data_request_free_slots
           /\ device_state = None
              => aps_data_request_status = "PendingNextDeviceUpdate" )
    /\ [][device_state # None => device_state' # None]_vars

\* An APS data request has been sent and the status waits for the next
\* device state, the last one being kept.
C37_Witness ==
    /\ aps_data_request_status = "PendingNextDeviceUpdate"
    /\ device_state # None
    /\ device_state[1].apsde_data_request_free_slots
    /\ \E i \in DOMAIN tx : tx[i].command_id = ApsDataRequest
\* The command ids of the scheduler's own reads, and the sequence ids of the
\* Internal entries in flight under a command id.
InternalReads == { DeviceState, ApsDataIndication, ApsDataConfirm }
InternalEntries(command_id) ==
    { s \in DOMAIN in_flight_commands[command_id] :
         in_flight_commands[command_id][s].kind = "Internal" }

\* C38: under each of the command ids DeviceState, ApsDataIndication and
\* ApsDataConfirm at most one Internal entry is in flight, and a pacing step
\* writes an internal read only under a command id that has no entry in
\* flight, Internal or External, when the step begins.
C38_OneInternalReadPerCommand ==
    /\ [](\A command_id \in InternalReads :
             Cardinality(InternalEntries(command_id)) <= 1)
    /\ [][ (pc = "try_io" /\ pc' # "try_io")
           => \A i \in DOMAIN tx' :
                 tx'[i].origin = Internal
                    => /\ tx'[i].command_id \in InternalReads
                       /\ DOMAIN in_flight_commands[tx'[i].command_id] = {} ]_vars

\* A pacing step has sent no indication read, although the device state
\* asks for one, because one is in flight.
C38_Witness ==
    /\ pc = "select"
    /\ device_state # None
    /\ IsConnected(device_state[1].network_state)
    /\ device_state[1].apsde_data_indication
    /\ InternalEntries(ApsDataIndication) # {}
    /\ \A i \in DOMAIN tx : tx[i].command_id # ApsDataIndication
\* C39: the dispatch of a frame that read_frame accepted never ends the
\* task's loop, however short the frame's body, and leaves the one-shots of
\* the callers it is not a response to as they were.
C39_DispatchNeverFatal ==
    [][ ( /\ pc = "select"
          /\ wire # <<>>
          /\ wire' = Tail(wire)
          /\ Head(wire).kind = "frame" )
        => /\ pc' = "try_io"
           /\ \A c \in DOMAIN calls :
                 (calls[c].sequence_id # Some(Head(wire).sequence_id)
                    \/ calls[c].command_id # Head(wire).command_id)
                    => calls'[c].oneshot = calls[c].oneshot ]_vars

\* The dispatch of a frame has ended the task's loop while a caller was
\* waiting.
C39_Witness ==
    /\ pc = "exiting"
    /\ last_dispatch \in { "external", "internal", "unsolicited" }
    /\ ~write_error
    /\ \E c \in DOMAIN calls : calls[c].oneshot = "open"
(***************************************************************************)
(* A task whose writes succeed and a device that answers every request in  *)
(* flight with a complete response (device state 0x22), from the start of  *)
(* the task and from a later point of a run, after 257 frames were written.*)
(***************************************************************************)
\* The later point: the first internal DeviceState read (id 0) was answered
\* with 0x22, a caller's Version request (id 1) is still unanswered, and the
\* 255 requests written after it were answered: next_sequence_id is 1 again.
InitWrapped ==
    /\ pc = "select"
    /\ disabled = {}
    /\ next_sequence_id = 1
    /\ device_state = Some(DeviceStateFromU8(34))
    /\ aps_data_request_status = "SlotsAvailable"
    /\ enqueued_commands = <<>>
    /\ enqueued_aps_data_request_commands = <<>>
    /\ in_flight_commands =
          [c \in CommandIds |->
              IF c = Version THEN [s \in {1} |-> External(s)] ELSE EmptyMap]
    /\ inbox = <<>>
    /\ handles_alive = TRUE
    /\ wire = <<>>
    /\ frames_left = MaxWarmFrames
    /\ calls_left = MaxWarmCalls
    /\ calls = [c \in {1} |->
                  [ kind |-> "CommandRequest", command_id |-> Version,
                    accepted |-> TRUE, oneshot |-> "open", sequence_id |-> <<c>>,
                    response |-> <<>>, invoked |-> 0 ]]
    /\ tx = <<>>
    /\ aps_sent_since_update = 0
    /\ last_observation = Some(DeviceStateFromU8(34))
    /\ write_error = FALSE
    /\ last_dispatch = "none"
    /\ num_written = U8Mod + 1
    /\ broadcast_channels = new_broadcast_channels
    /\ codec = NoCodec

InitAnswering == Init \/ InitWrapped

NextAnswering ==
    \/ ConnectSerial
    \/ TryIo
    \/ ReadFrame
    \/ RecvTaskMessage
    \/ SendCommand
    \/ DeviceAnswer

\* The runtime polls the task whenever it can make progress and the device
\* answers every request.
SpecAnswering ==
    /\ InitAnswering
    /\ [][NextAnswering]_vars
    /\ []<>(pc # "try_io")
    /\ WF_vars(ConnectSerial)
    /\ WF_vars(ReadFrame)
    /\ WF_vars(RecvTaskMessage)
    /\ WF_vars(DeviceAnswer)

\* The calls of a run: those pending at the later point and those made since.
AnsweringCalls == 1 .. (1 + MaxWarmCalls)

\* C40: every command that a caller has submitted for the general queue is
\* eventually written to the device and its caller eventually gets the
\* response, whether it was submitted before or after the first device
\* state.
C40_GeneralCommandAnswered ==
    \A c \in AnsweringCalls :
        ( /\ c \in DOMAIN calls
          /\ calls[c].kind = "CommandRequest"
          /\ calls[c].command_id # ApsDataRequest
          /\ calls[c].accepted )
        ~> ( /\ c \in DOMAIN calls
             /\ calls[c].sequence_id # None
             /\ Outcome(calls[c]) = "Ok" )

\* A caller has got TaskFailure for a general command that was written to
\* the device, the task running on.
C40_Witness ==
    /\ pc = "select"
    /\ \E c \in DOMAIN calls :
          /\ calls[c].kind = "CommandRequest"
          /\ calls[c].command_id # ApsDataRequest
          /\ calls[c].sequence_id # None
          /\ Outcome(calls[c]) = "TaskFailure"
====
